---- MODULE Spec2Model ----
(***************************************************************************)
(* A model of the command-interpretation core of the shell:                *)
(*   - the tokenizer  parse_tokens       (src/src/main.rs, src/src/parser.rs) *)
(*   - the redirection resolver parse_redirections (main.rs, redirect.rs)   *)
(*   - the command loop, dispatcher, external executor and result sink      *)
(*     (src/src/main.rs)                                                    *)
(* Text is a sequence of one-character strings; a token is such a sequence. *)
(* Three specifications share the variables: SpecTok scans one line with    *)
(* both tokenizers, SpecRes runs the resolver loop on one token sequence,   *)
(* Spec runs the command loop of main().                                    *)
(***************************************************************************)
EXTENDS Integers, Sequences, FiniteSets, TLC

VARIABLES
    \* ---- tokenizer (SpecTok) ----
    input_args,     \* the line handed to parse_tokens
    tk_main,        \* scan state of main.rs parse_tokens
    tk_parser,      \* scan state of parser.rs parse_tokens
    res_main,       \* value returned by main.rs parse_tokens (NoResult before)
    res_parser,     \* value returned by parser.rs parse_tokens (NoResult before)
    tpc,            \* "main" | "parser" | "done" | "idle"
    \* ---- resolver (SpecRes) ----
    args_slice,     \* the token sequence handed to parse_redirections
    command_args,   \* the residual tokens (mutable clone)
    red,            \* the Redirections being built
    rpc,            \* "loop" | "done" | "idle"
    \* ---- command loop (Spec) ----
    pc,             \* where main() and the executor stand
    nlines,         \* lines read so far
    command_name,   \* first token of the current line
    result,         \* Result<Option<String>, String> of dispatch_command
    fs,             \* regular files: path -> [exists, data]
    term_out,       \* what reached the terminal's stdout since the prompt
    term_err,       \* what reached the terminal's stderr since the prompt
    cwd,            \* the process-wide current directory
    exit_code,      \* Some(code) once process::exit(code) was called
    file_ops,       \* the opens and writes done on files since the prompt
    ext,            \* locals of execute_external_command and its child
    home_var,       \* env::var("HOME"): None when the variable is not set
    path_var,       \* env::var("PATH"): None when the variable is not set
    input           \* the line read_line put into input (main.rs 608-609)

tokVars == <<input_args, tk_main, tk_parser, res_main, res_parser, tpc>>
resVars == <<args_slice, command_args, red, rpc>>
shVars ==
    <<pc, nlines, command_name, result, fs, term_out, term_err, cwd, exit_code,
      file_ops, ext, home_var, path_var, input>>
vars == <<tokVars, resVars, shVars>>

\* ------------------------------------------------------------------------
\* Bounds
\* ------------------------------------------------------------------------
MaxLineLen == 4
MaxTokens == 5
MaxLines == 1

\* ------------------------------------------------------------------------
\* Characters
\* ------------------------------------------------------------------------
BACKSLASH == "\\"
SINGLE_QUOTE == "'"
DOUBLE_QUOTE == "\""

\* The characters lines are drawn from in SpecTok.
TokChars == {"a", " ", "\t", "\r", "'", "\"", "\\", "$"}

\* chars.peek() at end of input
NoChar == ""

\* char::is_whitespace (White_Space): the members that occur in the model
IsWhitespace(c) == c \in {" ", "\t", "\n", "\r", "\f"}

\* the pattern ' ' | '\t' of parser.rs
IsSpaceOrTab(c) == c \in {" ", "\t"}

\* The grave accent cannot be written in a string here; it stands as BACKTICK.
BACKTICK == "<grave>"

\* dollar, grave accent, double quote, backslash: the characters a backslash
\* escapes inside double quotes (main.rs)
DqEscapable(c) == c \in {"$", BACKTICK, "\"", "\\"}

\* ------------------------------------------------------------------------
\* Scan state shared by both tokenizers: the locals of parse_tokens.
\* pos is the index of the character chars.next() returns next.
\* ------------------------------------------------------------------------
TokInit ==
    [pos |-> 1, args |-> <<>>, current_arg |-> <<>>,
     in_double_quotes |-> FALSE, in_single_quotes |-> FALSE]

Peek(st, line) == IF st.pos <= Len(line) THEN line[st.pos] ELSE NoChar

Push(st, c) == [st EXCEPT !.current_arg = Append(@, c)]

\* chars.next(): consume one character
Consume(st) == [st EXCEPT !.pos = @ + 1]

\* A single-quote arm that toggles even inside double quotes (a deliberately
\* wrong variant, used to show the quote-state property depends on the guard)
SingleQuoteAlwaysToggles(st, c) == [st EXCEPT !.in_single_quotes = ~@]

\* ------------------------------------------------------------------------
\* main.rs parse_tokens: one iteration of while let Some(c) = chars.next()
\* st is the state after chars.next() returned c.
\* ------------------------------------------------------------------------
MainSingleQuoteArm(st, c) ==
    IF st.in_double_quotes
    THEN Push(st, c)
    ELSE [st EXCEPT !.in_single_quotes = ~@]

MainDoubleQuoteArm(st, c) ==
    IF st.in_single_quotes
    THEN Push(st, c)
    ELSE [st EXCEPT !.in_double_quotes = ~@]

\* A backslash arm that never escapes (a deliberately wrong variant, used to
\* show the escaping properties depend on the arm)
BackslashAlwaysLiteral(st, c, line) == Push(st, c)

MainBackslashArm(st, c, line) ==
    LET next == Peek(st, line) IN
    IF st.in_single_quotes
    THEN Push(st, c)
    ELSE IF st.in_double_quotes
    THEN IF next # NoChar /\ DqEscapable(next)
         THEN Push(Consume(st), next)
         ELSE Push(st, c)
    ELSE IF next # NoChar
         THEN Push(Consume(st), next)
         ELSE Push(st, c)

RECURSIVE MainSkipWhitespace(_, _)
MainSkipWhitespace(st, line) ==
    IF Peek(st, line) # NoChar /\ IsWhitespace(Peek(st, line))
    THEN MainSkipWhitespace(Consume(st), line)
    ELSE st

MainWhitespaceArm(st, line) ==
    LET flushed == IF st.current_arg # <<>>
                   THEN [st EXCEPT !.args = Append(@, st.current_arg),
                                   !.current_arg = <<>>]
                   ELSE st
    IN MainSkipWhitespace(flushed, line)

\* A loop body whose whitespace arm ignores the quote state (a deliberately
\* wrong variant, used to show that re-quoting relies on single quotes
\* protecting whitespace)
MainIterSplitsInQuotes(st0, line) ==
    LET c == line[st0.pos]
        st == Consume(st0)
    IN  IF c = SINGLE_QUOTE THEN MainSingleQuoteArm(st, c)
        ELSE IF c = DOUBLE_QUOTE THEN MainDoubleQuoteArm(st, c)
        ELSE IF c = BACKSLASH THEN MainBackslashArm(st, c, line)
        ELSE IF IsWhitespace(c) THEN MainWhitespaceArm(st, line)
        ELSE Push(st, c)

MainIter(st0, line) ==
    LET c == line[st0.pos]
        st == Consume(st0)
    IN  IF c = SINGLE_QUOTE THEN MainSingleQuoteArm(st, c)
        ELSE IF c = DOUBLE_QUOTE THEN MainDoubleQuoteArm(st, c)
        ELSE IF c = BACKSLASH THEN MainBackslashArm(st, c, line)
        ELSE IF IsWhitespace(c) /\ ~st.in_single_quotes /\ ~st.in_double_quotes
             THEN MainWhitespaceArm(st, line)
        ELSE Push(st, c)

\* ------------------------------------------------------------------------
\* parser.rs parse_tokens: one iteration of the loop
\* ------------------------------------------------------------------------
ParserBackslashArm(st, c, line) ==
    LET next_char == Peek(st, line) IN
    IF next_char # NoChar
    THEN IF st.in_single_quotes
         THEN Push(st, c)
         ELSE Push(Consume(st), next_char)
    ELSE Push(st, c)

ParserSingleQuoteArm(st, c) ==
    IF st.in_double_quotes
    THEN Push(st, c)
    ELSE [st EXCEPT !.in_single_quotes = ~@]

ParserDoubleQuoteArm(st, c) ==
    IF st.in_single_quotes
    THEN Push(st, c)
    ELSE [st EXCEPT !.in_double_quotes = ~@]

RECURSIVE ParserSkipWhitespace(_, _)
ParserSkipWhitespace(st, line) ==
    IF Peek(st, line) # NoChar /\ IsSpaceOrTab(Peek(st, line))
    THEN ParserSkipWhitespace(Consume(st), line)
    ELSE st

ParserWhitespaceArm(st, c, line) ==
    IF st.in_single_quotes \/ st.in_double_quotes
    THEN Push(st, c)
    ELSE LET flushed == IF st.current_arg # <<>>
                        THEN [st EXCEPT !.args = Append(@, st.current_arg),
                                        !.current_arg = <<>>]
                        ELSE st
         IN ParserSkipWhitespace(flushed, line)

ParserIter(st0, line) ==
    LET c == line[st0.pos]
        st == Consume(st0)
    IN  IF c = BACKSLASH THEN ParserBackslashArm(st, c, line)
        ELSE IF c = SINGLE_QUOTE THEN ParserSingleQuoteArm(st, c)
        ELSE IF c = DOUBLE_QUOTE THEN ParserDoubleQuoteArm(st, c)
        ELSE IF IsSpaceOrTab(c) THEN ParserWhitespaceArm(st, c, line)
        ELSE Push(st, c)

\* ------------------------------------------------------------------------
\* After the loop (the same code in both files): flush the last argument,
\* then report an unterminated quote or return the arguments.
\* ------------------------------------------------------------------------
NoResult == [ok |-> FALSE, err |-> "none", args |-> <<>>]
ErrDouble == "Unterminated double quote in arguments"
ErrSingle == "Unterminated single quote in arguments"

\* A flush without the is_empty test (a deliberately wrong variant, used to
\* show that the absence of empty tokens depends on the test)
FlushLastAlways(st) == [st EXCEPT !.args = Append(@, st.current_arg)]

FlushLast(st) ==
    IF st.current_arg # <<>>
    THEN [st EXCEPT !.args = Append(@, st.current_arg)]
    ELSE st

TokResult(st) ==
    IF st.in_double_quotes
    THEN [ok |-> FALSE, err |-> ErrDouble, args |-> <<>>]
    ELSE IF st.in_single_quotes
    THEN [ok |-> FALSE, err |-> ErrSingle, args |-> <<>>]
    ELSE [ok |-> TRUE, err |-> "", args |-> st.args]

\* A return that only looks at the double-quote flag (a deliberately wrong
\* variant, used to show the error property depends on both checks)
ReturnIgnoringSingleQuote(st) ==
    IF st.in_double_quotes
    THEN [ok |-> FALSE, err |-> ErrDouble, args |-> <<>>]
    ELSE [ok |-> TRUE, err |-> "", args |-> FlushLast(st).args]

MainReturn(st) == TokResult(FlushLast(st))

ParserReturn(st) == TokResult(FlushLast(st))

\* The whole functions, as the callers see them.
RECURSIVE MainRun(_, _)
MainRun(st, line) ==
    IF st.pos > Len(line) THEN st ELSE MainRun(MainIter(st, line), line)

main_parse_tokens(line) == MainReturn(MainRun(TokInit, line))

RECURSIVE ParserRun(_, _)
ParserRun(st, line) ==
    IF st.pos > Len(line) THEN st ELSE ParserRun(ParserIter(st, line), line)

parser_parse_tokens(line) == ParserReturn(ParserRun(TokInit, line))

\* ------------------------------------------------------------------------
\* SpecTok: one line, scanned by main.rs parse_tokens, then by parser.rs
\* parse_tokens, one loop iteration per step.
\* ------------------------------------------------------------------------
RECURSIVE SeqsUpTo(_, _)
SeqsUpTo(S, n) ==
    IF n = 0 THEN {<<>>}
    ELSE LET shorter == SeqsUpTo(S, n - 1)
         IN shorter \cup {Append(s, x) : s \in {t \in shorter : Len(t) = n - 1}, x \in S}

ResIdle ==
    /\ args_slice = <<>>
    /\ command_args = <<>>
    /\ red = [stdout_redirect |-> <<>>, stderr_redirect |-> <<>>]
    /\ rpc = "idle"

TokIdle ==
    /\ input_args = <<>>
    /\ tk_main = TokInit
    /\ tk_parser = TokInit
    /\ res_main = NoResult
    /\ res_parser = NoResult
    /\ tpc = "idle"

ShellIdle ==
    /\ pc = "idle"
    /\ nlines = 0
    /\ command_name = <<>>
    /\ result = [tag |-> "Ok", some |-> FALSE, text |-> <<>>]
    /\ fs = <<>>
    /\ term_out = <<>>
    /\ term_err = <<>>
    /\ cwd = <<>>
    /\ exit_code = <<>>
    /\ file_ops = <<>>
    /\ ext = <<>>
    /\ home_var = <<>>
    /\ path_var = <<>>
    /\ input = <<>>

InitTok ==
    /\ input_args \in SeqsUpTo(TokChars, MaxLineLen)
    /\ tk_main = TokInit
    /\ tk_parser = TokInit
    /\ res_main = NoResult
    /\ res_parser = NoResult
    /\ tpc = "main"
    /\ ResIdle
    /\ ShellIdle

MainScan ==
    /\ tpc = "main"
    /\ tk_main.pos <= Len(input_args)
    /\ tk_main' = MainIter(tk_main, input_args)
    /\ UNCHANGED <<input_args, tk_parser, res_main, res_parser, tpc, resVars, shVars>>

MainFinish ==
    /\ tpc = "main"
    /\ tk_main.pos > Len(input_args)
    /\ tk_main' = FlushLast(tk_main)
    /\ res_main' = MainReturn(tk_main)
    /\ tpc' = "parser"
    /\ UNCHANGED <<input_args, tk_parser, res_parser, resVars, shVars>>

ParserScan ==
    /\ tpc = "parser"
    /\ tk_parser.pos <= Len(input_args)
    /\ tk_parser' = ParserIter(tk_parser, input_args)
    /\ UNCHANGED <<input_args, tk_main, res_main, res_parser, tpc, resVars, shVars>>

ParserFinish ==
    /\ tpc = "parser"
    /\ tk_parser.pos > Len(input_args)
    /\ tk_parser' = FlushLast(tk_parser)
    /\ res_parser' = ParserReturn(tk_parser)
    /\ tpc' = "done"
    /\ UNCHANGED <<input_args, tk_main, res_main, resVars, shVars>>

NextTok == MainScan \/ MainFinish \/ ParserScan \/ ParserFinish

SpecTok == InitTok /\ [][NextTok]_vars

\* ------------------------------------------------------------------------
\* Redirections (main.rs 384-399, redirect.rs 8-31).
\* Option<T>: None is the empty sequence, Some(x) the one-element sequence.
\* ------------------------------------------------------------------------
None == <<>>
Some(x) == <<x>>
IsSome(o) == o # <<>>
Unwrap(o) == o[1]

Overwrite == "Overwrite"
Append_ == "Append"

RedirectFile(filename, mode) == [filename |-> filename, mode |-> mode]

\* Redirections::default()
RedirectionsDefault == [stdout_redirect |-> None, stderr_redirect |-> None]

\* The operator tokens
OpGt == <<">">>
OpGt1 == <<"1", ">">>
OpGtGt == <<">", ">">>
OpGtGt1 == <<"1", ">", ">">>
OpGt2 == <<"2", ">">>
OpGtGt2 == <<"2", ">", ">">>

\* The arms of `match op.as_str()` other than `_ => break`
IsRedirectionOp(op) == op \in {OpGt, OpGt1, OpGt2, OpGtGt, OpGtGt1, OpGtGt2}

\* Arms that all set mode Overwrite (a deliberately wrong variant, used to
\* show that the operator grammar property depends on the arms)
RedirectionArmAlwaysOverwrite(r, op, filename) ==
    IF op \in {OpGt, OpGt1, OpGtGt, OpGtGt1}
    THEN [r EXCEPT !.stdout_redirect = Some(RedirectFile(filename, Overwrite))]
    ELSE [r EXCEPT !.stderr_redirect = Some(RedirectFile(filename, Overwrite))]

\* The assignment made by the arm that matches op
RedirectionArm(r, op, filename) ==
    IF op \in {OpGt, OpGt1}
    THEN [r EXCEPT !.stdout_redirect = Some(RedirectFile(filename, Overwrite))]
    ELSE IF op = OpGt2
    THEN [r EXCEPT !.stderr_redirect = Some(RedirectFile(filename, Overwrite))]
    ELSE IF op \in {OpGtGt, OpGtGt1}
    THEN [r EXCEPT !.stdout_redirect = Some(RedirectFile(filename, Append_))]
    ELSE IF op = OpGtGt2
    THEN [r EXCEPT !.stderr_redirect = Some(RedirectFile(filename, Append_))]
    ELSE r

\* A truncate that removes one token (a deliberately wrong variant, used to
\* show that the residual property depends on pairs being removed whole)
TruncateOne(ca) == SubSeq(ca, 1, Len(ca) - 1)

\* command_args.truncate(len - 2)
Truncate2(ca) == SubSeq(ca, 1, Len(ca) - 2)

\* A loop guard that knows the stdout operators only (a deliberately wrong
\* variant, used to show that order independence depends on the guard)
ResolverContinuesStdoutOnly(ca) ==
    Len(ca) >= 2 /\ ca[Len(ca) - 1] \in {OpGt, OpGt1, OpGtGt, OpGtGt1}

\* The loop goes on: at least two tokens and the second-to-last is an operator
ResolverContinues(ca) == Len(ca) >= 2 /\ IsRedirectionOp(ca[Len(ca) - 1])

\* One iteration of the loop that matches: <<command_args, red>> afterwards
ResolverIter(ca, r) ==
    LET len == Len(ca)
        op == ca[len - 1]
        filename == ca[len]
    IN <<Truncate2(ca), RedirectionArm(r, op, filename)>>

\* The whole function
RECURSIVE ResolverRun(_, _)
ResolverRun(ca, r) ==
    IF ResolverContinues(ca)
    THEN ResolverRun(ResolverIter(ca, r)[1], ResolverIter(ca, r)[2])
    ELSE <<ca, r>>

parse_redirections(slice) == ResolverRun(slice, RedirectionsDefault)

\* ------------------------------------------------------------------------
\* SpecRes: parse_redirections on one token sequence, one loop iteration
\* per step.
\* ------------------------------------------------------------------------
ResTokens == {<<"a">>, <<"b">>, OpGt, OpGt1, OpGtGt, OpGtGt1, OpGt2, OpGtGt2}

InitRes ==
    /\ args_slice \in SeqsUpTo(ResTokens, MaxTokens)
    /\ command_args = args_slice
    /\ red = RedirectionsDefault
    /\ rpc = "loop"
    /\ TokIdle
    /\ ShellIdle

ResolverMatch ==
    /\ rpc = "loop"
    /\ ResolverContinues(command_args)
    /\ command_args' = ResolverIter(command_args, red)[1]
    /\ red' = ResolverIter(command_args, red)[2]
    /\ UNCHANGED <<args_slice, rpc, tokVars, shVars>>

ResolverBreak ==
    /\ rpc = "loop"
    /\ ~ResolverContinues(command_args)
    /\ rpc' = "done"
    /\ UNCHANGED <<args_slice, command_args, red, tokVars, shVars>>

NextRes == ResolverMatch \/ ResolverBreak

SpecRes == InitRes /\ [][NextRes]_vars

\* ========================================================================
\* The command loop (src/src/main.rs)
\* ========================================================================

\* ------------------------------------------------------------------------
\* Text helpers
\* ------------------------------------------------------------------------
NL == "\n"

\* [String]::join(sep)
RECURSIVE Join(_, _)
Join(ts, sep) ==
    IF ts = <<>> THEN <<>>
    ELSE IF Len(ts) = 1 THEN ts[1]
    ELSE ts[1] \o <<sep>> \o Join(Tail(ts), sep)

\* str::trim
RECURSIVE TrimStart(_)
TrimStart(s) ==
    IF s # <<>> /\ IsWhitespace(s[1]) THEN TrimStart(Tail(s)) ELSE s

RECURSIVE TrimEnd(_)
TrimEnd(s) ==
    IF s # <<>> /\ IsWhitespace(s[Len(s)]) THEN TrimEnd(SubSeq(s, 1, Len(s) - 1)) ELSE s

Trim(s) == TrimEnd(TrimStart(s))

\* str::contains(char), str::starts_with
Contains(s, c) == \E i \in 1..Len(s) : s[i] = c
StartsWith(s, pre) == Len(s) >= Len(pre) /\ SubSeq(s, 1, Len(pre)) = pre

\* str::split(char): the pieces between the separators, empty ones included
RECURSIVE Split(_, _)
Split(s, c) ==
    IF ~Contains(s, c) THEN <<s>>
    ELSE LET i == CHOOSE k \in 1..Len(s) : s[k] = c /\ \A j \in 1..(k - 1) : s[j] # c
         IN <<SubSeq(s, 1, i - 1)>> \o Split(SubSeq(s, i + 1, Len(s)), c)

\* PathBuf::push / DirEntry::path: dir joined with a relative name
PathJoin(dir, name) ==
    IF dir # <<>> /\ dir[Len(dir)] = "/" THEN dir \o name ELSE dir \o <<"/">> \o name

\* How the OS resolves a path given to open or chdir
Resolve(dir, path) ==
    IF path # <<>> /\ path[1] = "/" THEN path ELSE PathJoin(dir, path)

\* ------------------------------------------------------------------------
\* The environment the shell runs in
\* ------------------------------------------------------------------------
Root == <<"/">>
DirD == <<"/", "d">>
DirH == <<"/", "h">>
DirB == <<"/", "b">>

\* The directories that exist
Directories == {Root, DirD, DirH, DirB}

\* env::var("HOME"): not set, or /h.  env::var("PATH"): a directory that
\* does not exist, an empty entry, then /b
HomeValues == {None, Some(DirH)}
PATH_VAR == Some(<<"/", "e", ":", ":", "/", "b">>)

\* /b holds x and echo (regular files, execute bit set) and z (regular
\* file, no execute bit)
DirEntries(dir) ==
    IF dir = DirB THEN {<<"x">>, <<"z">>, <<"e", "c", "h", "o">>} ELSE {}

\* fs::metadata / DirEntry::metadata of a path outside the redirect files
NoMeta == [found |-> FALSE, is_file |-> FALSE, exec |-> FALSE]
Metadata(path) ==
    IF path \in {PathJoin(DirB, <<"x">>), PathJoin(DirB, <<"e", "c", "h", "o">>)}
    THEN [found |-> TRUE, is_file |-> TRUE, exec |-> TRUE]
    ELSE IF path = PathJoin(DirB, <<"z">>) THEN [found |-> TRUE, is_file |-> TRUE, exec |-> FALSE]
    ELSE IF path \in Directories THEN [found |-> TRUE, is_file |-> FALSE, exec |-> TRUE]
    ELSE NoMeta

\* The names redirect targets are drawn from, and the regular files they
\* can name: one per directory.  Any other path cannot be opened for writing
\* (it is a directory, or its directory does not exist).
FileF == <<"f">>
FileG == <<"g">>
FileNames == {FileF, FileG}
FsPaths == {PathJoin(d, n) : d \in Directories, n \in FileNames}

Absent == [exists |-> FALSE, data |-> <<>>]
OldData == <<"old">>

\* The text std::io::Error displays
IoError == <<"io error">>

\* ------------------------------------------------------------------------
\* Files: OpenOptions::open, File::create, write_all
\* A handle keeps its path, whether it appends, and its offset.
\* ------------------------------------------------------------------------
NoHandle == [path |-> <<>>, append |-> FALSE, off |-> 0]

FileOp(op, path, truncate, append, ok, data, by) ==
    [op |-> op, path |-> path, truncate |-> truncate, append |-> append,
     ok |-> ok, data |-> data, by |-> by]

\* OpenOptions::new().write(true).create(true).truncate(t).append(a).open(name)
\* in world w (fs, file_ops, term_out, term_err) with current directory dir
OpenFile(w, dir, filename, truncate, append) ==
    LET path == Resolve(dir, filename) IN
    IF path \notin DOMAIN w.fs
    THEN [ok |-> FALSE, h |-> NoHandle,
          w |-> [w EXCEPT !.file_ops =
                    Append(@, FileOp("open", path, truncate, append, FALSE, <<>>, "shell"))]]
    ELSE [ok |-> TRUE, h |-> [path |-> path, append |-> append, off |-> 0],
          w |-> [w EXCEPT
                    !.fs[path] = [exists |-> TRUE,
                                  data |-> IF truncate THEN <<>> ELSE @.data],
                    !.file_ops =
                        Append(@, FileOp("open", path, truncate, append, TRUE, <<>>, "shell"))]]

\* The file contents after writing data through handle h
WrittenData(old, h, data) ==
    LET at == IF h.append \/ h.off > Len(old) THEN Len(old) ELSE h.off
    IN SubSeq(old, 1, at) \o data \o SubSeq(old, at + Len(data) + 1, Len(old))

\* write_all(data) through handle h by the shell or by the child
WriteFile(w, h, data, by) ==
    [w EXCEPT !.fs[h.path].data = WrittenData(@, h, data),
              !.file_ops = Append(@, FileOp("write", h.path, FALSE, h.append, TRUE, data, by))]

\* print! + flush, eprintln!
PrintOut(w, text, by) == [w EXCEPT !.term_out = Append(@, [by |-> by, text |-> text])]
PrintErr(w, text, by) == [w EXCEPT !.term_err = Append(@, [by |-> by, text |-> text])]
EPrintln(w, text) == PrintErr(w, text \o <<NL>>, "shell")

\* ------------------------------------------------------------------------
\* Result<Option<String>, String>
\* ------------------------------------------------------------------------
OkSome(text) == [tag |-> "Ok", some |-> TRUE, text |-> text]
OkNone == [tag |-> "Ok", some |-> FALSE, text |-> <<>>]
Err(msg) == [tag |-> "Err", some |-> FALSE, text |-> msg]

\* The four CommandResult variants of the spec, as the code encodes them
IsOutput(r) == r.tag = "Ok" /\ r.some
IsNoOutput(r) == r.tag = "Ok" /\ ~r.some
IsFailure(r) == r.tag = "Err" /\ r.text # <<>>
IsSilentFailure(r) == r.tag = "Err" /\ r.text = <<>>

\* ------------------------------------------------------------------------
\* Builtin handlers (main.rs 186-258)
\* ------------------------------------------------------------------------
handle_echo(args) == OkSome(Join(args, " ") \o <<NL>>)

\* env::current_dir() is taken to succeed
handle_pwd(args, dir) == OkSome(dir \o <<NL>>)

\* find_exec_in_dir: "Some" with the entry's path, "None", or "Err"
find_exec_in_dir(dir_path, name, dir) ==
    LET d == Resolve(dir, dir_path) IN
    IF d \notin Directories
    THEN IF Metadata(d).found
         THEN [kind |-> "Err", path |-> <<>>]
         ELSE [kind |-> "None", path |-> <<>>]
    ELSE IF /\ name \in DirEntries(d)
            /\ Metadata(PathJoin(d, name)).is_file
            /\ Metadata(PathJoin(d, name)).exec
         THEN [kind |-> "Some", path |-> PathJoin(dir_path, name)]
         ELSE [kind |-> "None", path |-> <<>>]

\* The loop over the PATH directories: the first match, in listed order
RECURSIVE SearchDirs(_, _, _)
SearchDirs(dirs, name, dir) ==
    IF dirs = <<>> THEN None
    ELSE IF find_exec_in_dir(dirs[1], name, dir).kind = "Some"
    THEN Some(find_exec_in_dir(dirs[1], name, dir).path)
    ELSE SearchDirs(Tail(dirs), name, dir)

\* A lookup that goes to PATH whatever the name is (a deliberately wrong
\* variant, used to show that the direct-path property depends on the
\* test for '/')
FindExecPathOnly(name, dir) ==
    IF IsSome(path_var)
    THEN SearchDirs(SelectSeq(Split(Unwrap(path_var), ":"), LAMBDA d : d # <<>>), name, dir)
    ELSE None

\* find_exec_in_path (main.rs 145-177)
find_exec_in_path(name, dir) ==
    IF Contains(name, "/")
    THEN LET metadata == Metadata(Resolve(dir, name)) IN
         IF metadata.found /\ metadata.is_file /\ metadata.exec
         THEN Some(name)
         ELSE None
    ELSE IF IsSome(path_var)
    THEN SearchDirs(SelectSeq(Split(Unwrap(path_var), ":"), LAMBDA d : d # <<>>), name, dir)
    ELSE None

TokEcho == <<"e", "c", "h", "o">>
TokExit == <<"e", "x", "i", "t">>
TokType == <<"t", "y", "p", "e">>
TokPwd == <<"p", "w", "d">>
TokCd == <<"c", "d">>
Builtins == {TokEcho, TokExit, TokType, TokPwd, TokCd}

type_info_string(name, dir) ==
    IF name \in Builtins
    THEN name \o <<" is a shell builtin">>
    ELSE IF IsSome(find_exec_in_path(name, dir))
    THEN name \o <<" is ">> \o Unwrap(find_exec_in_path(name, dir))
    ELSE name \o <<": not found">>

handle_type(args, dir) ==
    IF Len(args) = 1 THEN OkSome(type_info_string(args[1], dir) \o <<NL>>)
    ELSE IF args = <<>> THEN Err(<<"type: missing argument">>)
    ELSE Err(<<"type: too many arguments">>)

\* change_dir: the result and the current directory afterwards
\* A change_dir that moves even when it reports a failure (a deliberately
\* wrong variant, used to show that the working-directory property depends
\* on set_current_dir failing without effect)
ChangeDirUnchecked(target_path_str, dir) ==
    [result |-> IF Resolve(dir, target_path_str) \in Directories
                THEN OkNone
                ELSE Err(<<"cd: ">> \o target_path_str \o <<": No such file or directory">>),
     cwd |-> Resolve(dir, target_path_str)]

change_dir(target_path_str, dir) ==
    LET tilde == target_path_str = <<"~">> \/ StartsWith(target_path_str, <<"~", "/">>)
        target_path ==
            IF tilde
            THEN IF StartsWith(target_path_str, <<"~", "/">>)
                 THEN Resolve(Unwrap(home_var),
                              SubSeq(target_path_str, 3, Len(target_path_str)))
                 ELSE Unwrap(home_var)
            ELSE target_path_str
        resolved == Resolve(dir, target_path)
    IN  IF tilde /\ ~IsSome(home_var)
        THEN [result |-> Err(<<"cd: HOME environment variable not set">>), cwd |-> dir]
        ELSE IF resolved \in Directories
        THEN [result |-> OkNone, cwd |-> resolved]
        ELSE [result |-> Err(<<"cd: ">> \o target_path \o <<": ">> \o
                             (IF ~Metadata(resolved).found
                              THEN <<"No such file or directory">>
                              ELSE IoError)),
              cwd |-> dir]

handle_cd(args, dir) ==
    IF args = <<>> THEN change_dir(<<"~">>, dir)
    ELSE IF Len(args) = 1 THEN change_dir(args[1], dir)
    ELSE [result |-> Err(<<"cd: too many arguments">>), cwd |-> dir]

\* str::parse::<i32>: an optional sign, then decimal digits, within range
Digits == <<"0", "1", "2", "3", "4", "5", "6", "7", "8", "9">>
IsDigit(c) == \E i \in 1..Len(Digits) : Digits[i] = c
DigitValue(c) == (CHOOSE i \in 1..Len(Digits) : Digits[i] = c) - 1

RECURSIVE DecimalValue(_)
DecimalValue(s) ==
    IF s = <<>> THEN 0
    ELSE DecimalValue(SubSeq(s, 1, Len(s) - 1)) * 10 + DigitValue(s[Len(s)])

ParseI32(s) ==
    LET signed == s # <<>> /\ s[1] \in {"+", "-"}
        body == IF signed THEN Tail(s) ELSE s
        n == IF signed /\ s[1] = "-" THEN 0 - DecimalValue(body) ELSE DecimalValue(body)
    IN  IF body = <<>> \/ (\E i \in 1..Len(body) : ~IsDigit(body[i]))
        THEN None
        ELSE IF n >= (0 - 2147483647) - 1 /\ n <= 2147483647 THEN Some(n) ELSE None

\* An exit that ignores its argument (a deliberately wrong variant, used to
\* show that the exit property depends on the parse)
ExitCodeAlwaysZero(args) == 0

\* The exit arm of dispatch_command (main.rs 460-466)
ExitCode(args) ==
    IF args # <<>> /\ IsSome(ParseI32(args[1])) THEN Unwrap(ParseI32(args[1])) ELSE 0

\* ------------------------------------------------------------------------
\* handle_command_result (main.rs 483-598), on the world
\* w = [fs, file_ops, term_out, term_err] with current directory dir
\* ------------------------------------------------------------------------
\* "Ensure ... file exists": open with create, truncate/append per mode, and
\* ignore the outcome
EnsureFile(w, dir, target) ==
    IF IsSome(target)
    THEN OpenFile(w, dir, Unwrap(target).filename,
                  Unwrap(target).mode = Overwrite, Unwrap(target).mode = Append_).w
    ELSE w

\* Deliberately wrong variants of the three arms, used to show that the
\* delivery properties depend on what each arm does:
\* Ok(Some) without the trailing stderr "ensure"
DeliverOutputNoStderrEnsure(output_str, r, w, dir) ==
    IF IsSome(r.stdout_redirect)
    THEN LET stdout == Unwrap(r.stdout_redirect)
             o == OpenFile(w, dir, stdout.filename,
                           stdout.mode = Overwrite, stdout.mode = Append_)
         IN IF o.ok
            THEN WriteFile(o.w, o.h, output_str, "shell")
            ELSE EPrintln(o.w, <<"shell: failed to open stdout redirect file '">>
                                \o stdout.filename \o <<"': ">> \o IoError)
    ELSE PrintOut(w, output_str, "shell")

\* Ok(None) that also "ensures" the stdout target
DeliverNoOutputBothTargets(r, w, dir) ==
    EnsureFile(EnsureFile(w, dir, r.stderr_redirect), dir, r.stdout_redirect)

\* Err that prints the message on the terminal whatever the stderr redirect is
DeliverErrAlwaysPrints(err_msg, r, w, dir) ==
    IF err_msg # <<>>
    THEN EnsureFile(EPrintln(w, err_msg), dir, r.stdout_redirect)
    ELSE w

\* Err without the is_empty test
DeliverErrNoEmptyCheck(err_msg, r, w, dir) ==
    LET w1 ==
            IF IsSome(r.stderr_redirect)
            THEN LET stderr == Unwrap(r.stderr_redirect)
                     o == OpenFile(w, dir, stderr.filename, TRUE, FALSE)
                 IN IF o.ok
                    THEN WriteFile(o.w, o.h, err_msg \o <<NL>>, "shell")
                    ELSE EPrintln(o.w, err_msg)
            ELSE EPrintln(w, err_msg)
    IN EnsureFile(w1, dir, r.stdout_redirect)

\* Ok(Some(output_str)) (main.rs 485-538); writes to an opened file succeed
DeliverOutput(output_str, r, w, dir) ==
    IF IsSome(r.stdout_redirect)
    THEN LET stdout == Unwrap(r.stdout_redirect)
             o == OpenFile(w, dir, stdout.filename,
                           stdout.mode = Overwrite, stdout.mode = Append_)
             w1 == IF o.ok
                   THEN WriteFile(o.w, o.h, output_str, "shell")
                   ELSE EPrintln(o.w, <<"shell: failed to open stdout redirect file '">>
                                       \o stdout.filename \o <<"': ">> \o IoError)
         IN EnsureFile(w1, dir, r.stderr_redirect)
    ELSE EnsureFile(PrintOut(w, output_str, "shell"), dir, r.stderr_redirect)

\* Ok(None) (main.rs 539-553)
DeliverNoOutput(r, w, dir) == EnsureFile(w, dir, r.stderr_redirect)

\* Err(err_msg) (main.rs 554-596)
DeliverErr(err_msg, r, w, dir) ==
    IF err_msg # <<>>
    THEN LET w1 ==
                 IF IsSome(r.stderr_redirect)
                 THEN LET stderr == Unwrap(r.stderr_redirect)
                          o == OpenFile(w, dir, stderr.filename, TRUE, FALSE)
                      IN IF o.ok
                         THEN WriteFile(o.w, o.h, err_msg \o <<NL>>, "shell")
                         ELSE EPrintln(
                                EPrintln(o.w, <<"shell: failed to open stderr redirect file '">>
                                              \o stderr.filename \o <<"': ">> \o IoError),
                                err_msg)
                 ELSE EPrintln(w, err_msg)
         IN EnsureFile(w1, dir, r.stdout_redirect)
    ELSE w

handle_command_result(res, r, w, dir) ==
    IF res.tag = "Ok" /\ res.some THEN DeliverOutput(res.text, r, w, dir)
    ELSE IF res.tag = "Ok" THEN DeliverNoOutput(r, w, dir)
    ELSE DeliverErr(res.text, r, w, dir)

\* ------------------------------------------------------------------------
\* The world the handlers act on, taken from and put back into the variables
\* ------------------------------------------------------------------------
World == [fs |-> fs, file_ops |-> file_ops, term_out |-> term_out, term_err |-> term_err]

SetWorld(w) ==
    /\ fs' = w.fs
    /\ file_ops' = w.file_ops
    /\ term_out' = w.term_out
    /\ term_err' = w.term_err

\* ------------------------------------------------------------------------
\* execute_external_command (main.rs 265-380)
\* ------------------------------------------------------------------------
\* What a child may do: write nothing, text, or bytes that are not UTF-8 to
\* its stdout; nothing or text to its stderr; exit with status 0 or 1.
BadUtf8 == "<not utf-8>"
ChildOuts == {<<>>, <<"o">>, <<BadUtf8>>}
ChildErrs == {<<>>, <<"e">>}
ExitStatuses == {0, 1}
SpawnErrors == {"NotFound", "PermissionDenied", "Other"}

ExtIdle ==
    [full_path |-> <<>>, stdout_handle |-> None, stderr_handle |-> None,
     pipe |-> <<>>, captured_stdout |-> <<>>, child_status |-> 0, waited |-> FALSE]

\* The message for a spawn error of the given kind (main.rs 338-344)
SpawnErrorMessage(kind, name) ==
    IF kind = "NotFound" THEN name \o <<": command not found (spawn error)">>
    ELSE IF kind = "PermissionDenied" THEN name \o <<": Permission denied">>
    ELSE <<"failed to execute command '">> \o name \o <<"': ">> \o IoError

\* A deliberately wrong variant that reports every exit status as success
ExitStatusAlwaysOk(status) == OkNone

\* The value returned for an exit status (main.rs 374-379)
ExitStatusResult(status) == IF status = 0 THEN OkNone ELSE Err(<<>>)

\* Stdout: redirect to a file or pipe (main.rs 282-308).  try_clone is taken
\* to succeed.
ExecOpenStdout ==
    /\ pc = "exec_stdout"
    /\ IF IsSome(red.stdout_redirect)
       THEN LET stdout == Unwrap(red.stdout_redirect)
                o == OpenFile(World, cwd, stdout.filename,
                              stdout.mode = Overwrite, stdout.mode = Append_)
            IN /\ SetWorld(o.w)
               /\ IF o.ok
                  THEN /\ ext' = [ext EXCEPT !.stdout_handle = Some(o.h)]
                       /\ pc' = "exec_stderr"
                       /\ UNCHANGED result
                  ELSE /\ result' = Err(<<"failed to open stdout redirect file '">>
                                        \o stdout.filename \o <<"': ">> \o IoError)
                       /\ pc' = "deliver"
                       /\ UNCHANGED ext
       ELSE /\ pc' = "exec_stderr"
            /\ UNCHANGED <<fs, file_ops, term_out, term_err, ext, result>>
    /\ UNCHANGED <<nlines, command_name, cwd, exit_code, tokVars, resVars, home_var, path_var, input>>

\* Stderr: redirect to a file or inherit (main.rs 310-335).  An early return
\* drops the stdout handle.
ExecOpenStderr ==
    /\ pc = "exec_stderr"
    /\ IF IsSome(red.stderr_redirect)
       THEN LET stderr == Unwrap(red.stderr_redirect)
                o == OpenFile(World, cwd, stderr.filename,
                              stderr.mode = Overwrite, stderr.mode = Append_)
            IN /\ SetWorld(o.w)
               /\ IF o.ok
                  THEN /\ ext' = [ext EXCEPT !.stderr_handle = Some(o.h)]
                       /\ pc' = "exec_spawn"
                       /\ UNCHANGED result
                  ELSE /\ result' = Err(<<"failed to open stderr redirect file '">>
                                        \o stderr.filename \o <<"': ">> \o IoError)
                       /\ pc' = "deliver"
                       /\ ext' = [ext EXCEPT !.stdout_handle = None]
       ELSE /\ pc' = "exec_spawn"
            /\ UNCHANGED <<fs, file_ops, term_out, term_err, ext, result>>
    /\ UNCHANGED <<nlines, command_name, cwd, exit_code, tokVars, resVars, home_var, path_var, input>>

\* A spawn that gives the files away to the child and keeps no handle (a
\* deliberately wrong variant, used to show that the handle-lifetime
\* property depends on the handles being kept across the wait)
ExecSpawnOkDropsHandles ==
    /\ pc = "exec_spawn"
    /\ pc' = "exec_child"
    /\ ext' = [ext EXCEPT !.stdout_handle = None, !.stderr_handle = None]
    /\ UNCHANGED <<nlines, command_name, result, fs, term_out, term_err, cwd,
                   exit_code, file_ops, tokVars, resVars, home_var, path_var, input>>

\* command.spawn() succeeds (main.rs 338)
ExecSpawnOk ==
    /\ pc = "exec_spawn"
    /\ pc' = "exec_child"
    /\ UNCHANGED <<nlines, command_name, result, fs, term_out, term_err, cwd,
                   exit_code, file_ops, ext, tokVars, resVars, home_var, path_var, input>>

\* command.spawn() fails (main.rs 338-344): the error is returned, the
\* handles go out of scope
ExecSpawnFail ==
    /\ pc = "exec_spawn"
    /\ \E kind \in SpawnErrors :
          result' = Err(SpawnErrorMessage(kind, command_name))
    /\ ext' = [ext EXCEPT !.stdout_handle = None, !.stderr_handle = None]
    /\ pc' = "deliver"
    /\ UNCHANGED <<nlines, command_name, fs, term_out, term_err, cwd, exit_code,
                   file_ops, tokVars, resVars, home_var, path_var, input>>

\* The child runs to its end: it writes to the stdout and stderr it was
\* given (the redirect file or the pipe; the redirect file or the terminal)
\* and exits.
ChildRun ==
    /\ pc = "exec_child"
    /\ \E out \in ChildOuts, err \in ChildErrs, st \in ExitStatuses :
          LET w1 == IF IsSome(ext.stdout_handle) /\ out # <<>>
                    THEN WriteFile(World, Unwrap(ext.stdout_handle), out, "child")
                    ELSE World
              w2 == IF err = <<>> THEN w1
                    ELSE IF IsSome(ext.stderr_handle)
                    THEN WriteFile(w1, Unwrap(ext.stderr_handle), err, "child")
                    ELSE PrintErr(w1, err, "child")
          IN /\ SetWorld(w2)
             /\ ext' = [ext EXCEPT
                           !.pipe = IF IsSome(ext.stdout_handle) THEN <<>> ELSE out,
                           !.child_status = st]
    /\ pc' = "exec_drain"
    /\ UNCHANGED <<nlines, command_name, result, cwd, exit_code, tokVars, resVars, home_var, path_var, input>>

\* Capture stdout only if it was piped (main.rs 346-355)
ExecDrain ==
    /\ pc = "exec_drain"
    /\ IF ~IsSome(red.stdout_redirect)
       THEN IF \E i \in 1..Len(ext.pipe) : ext.pipe[i] = BadUtf8
            THEN /\ SetWorld(EPrintln(World,
                        <<"shell: warning: error reading command stdout pipe: ">> \o IoError))
                 /\ ext' = [ext EXCEPT !.pipe = <<>>]
            ELSE /\ ext' = [ext EXCEPT !.captured_stdout = ext.pipe, !.pipe = <<>>]
                 /\ UNCHANGED <<fs, file_ops, term_out, term_err>>
       ELSE UNCHANGED <<fs, file_ops, term_out, term_err, ext>>
    /\ pc' = "exec_wait"
    /\ UNCHANGED <<nlines, command_name, result, cwd, exit_code, tokVars, resVars, home_var, path_var, input>>

\* child.wait() returns the exit status (main.rs 358-360)
ExecWaitOk ==
    /\ pc = "exec_wait"
    /\ ext' = [ext EXCEPT !.waited = TRUE]
    /\ pc' = "exec_finish"
    /\ UNCHANGED <<nlines, command_name, result, fs, term_out, term_err, cwd,
                   exit_code, file_ops, tokVars, resVars, home_var, path_var, input>>

\* child.wait() fails (main.rs 358-360): the error is returned, the handles
\* go out of scope
ExecWaitFail ==
    /\ pc = "exec_wait"
    /\ result' = Err(<<"failed to wait for command '">> \o command_name
                     \o <<"': ">> \o IoError)
    /\ ext' = [ext EXCEPT !.stdout_handle = None, !.stderr_handle = None]
    /\ pc' = "deliver"
    /\ UNCHANGED <<nlines, command_name, fs, term_out, term_err, cwd, exit_code,
                   file_ops, tokVars, resVars, home_var, path_var, input>>

\* An end of the executor that prints the captured text only for status 0
\* (a deliberately wrong variant, used to show that the ordering property
\* depends on the print coming before the status test)
ExecFinishPrintOnSuccess ==
    /\ pc = "exec_finish"
    /\ ext' = [ext EXCEPT !.stdout_handle = None, !.stderr_handle = None]
    /\ IF ext.captured_stdout # <<>> /\ ext.child_status = 0
       THEN SetWorld(PrintOut(World, ext.captured_stdout, "shell"))
       ELSE UNCHANGED <<fs, file_ops, term_out, term_err>>
    /\ result' = ExitStatusResult(ext.child_status)
    /\ pc' = "deliver"
    /\ UNCHANGED <<nlines, command_name, cwd, exit_code, tokVars, resVars, home_var, path_var, input>>

\* After wait: drop the handles, print the captured stdout, return the
\* status (main.rs 362-379)
ExecFinish ==
    /\ pc = "exec_finish"
    /\ ext' = [ext EXCEPT !.stdout_handle = None, !.stderr_handle = None]
    /\ IF ext.captured_stdout # <<>>
       THEN SetWorld(PrintOut(World, ext.captured_stdout, "shell"))
       ELSE UNCHANGED <<fs, file_ops, term_out, term_err>>
    /\ result' = ExitStatusResult(ext.child_status)
    /\ pc' = "deliver"
    /\ UNCHANGED <<nlines, command_name, cwd, exit_code, tokVars, resVars, home_var, path_var, input>>

\* ------------------------------------------------------------------------
\* dispatch_command (main.rs 453-479)
\* ------------------------------------------------------------------------
DispatchExit ==
    /\ pc = "dispatch"
    /\ command_name = TokExit
    /\ exit_code' = Some(ExitCode(command_args))
    /\ pc' = "exited"
    /\ UNCHANGED <<nlines, command_name, result, fs, term_out, term_err, cwd,
                   file_ops, ext, tokVars, resVars, home_var, path_var, input>>

\* A dispatch that looks a builtin's name up and runs the file it finds (a
\* deliberately wrong variant, used to show that the dispatch property
\* depends on the builtin arms coming first)
DispatchBuiltinAfterLookup ==
    /\ pc = "dispatch"
    /\ command_name \in {TokEcho, TokPwd, TokCd, TokType}
    /\ IsSome(find_exec_in_path(command_name, cwd))
    /\ ext' = [ExtIdle EXCEPT !.full_path = Unwrap(find_exec_in_path(command_name, cwd))]
    /\ pc' = "exec_stdout"
    /\ UNCHANGED <<nlines, command_name, result, fs, term_out, term_err, cwd,
                   exit_code, file_ops, tokVars, resVars, home_var, path_var, input>>

DispatchBuiltin ==
    /\ pc = "dispatch"
    /\ command_name \in {TokEcho, TokPwd, TokCd, TokType}
    /\ result' = IF command_name = TokEcho THEN handle_echo(command_args)
                 ELSE IF command_name = TokPwd THEN handle_pwd(command_args, cwd)
                 ELSE IF command_name = TokCd THEN handle_cd(command_args, cwd).result
                 ELSE handle_type(command_args, cwd)
    /\ cwd' = IF command_name = TokCd THEN handle_cd(command_args, cwd).cwd ELSE cwd
    /\ pc' = "deliver"
    /\ UNCHANGED <<nlines, command_name, fs, term_out, term_err, exit_code,
                   file_ops, ext, tokVars, resVars, home_var, path_var, input>>

DispatchExternal ==
    /\ pc = "dispatch"
    /\ command_name \notin Builtins
    /\ IsSome(find_exec_in_path(command_name, cwd))
    /\ ext' = [ExtIdle EXCEPT !.full_path = Unwrap(find_exec_in_path(command_name, cwd))]
    /\ pc' = "exec_stdout"
    /\ UNCHANGED <<nlines, command_name, result, fs, term_out, term_err, cwd,
                   exit_code, file_ops, tokVars, resVars, home_var, path_var, input>>

DispatchNotFound ==
    /\ pc = "dispatch"
    /\ command_name \notin Builtins
    /\ ~IsSome(find_exec_in_path(command_name, cwd))
    /\ result' = Err(command_name \o <<": command not found">>)
    /\ pc' = "deliver"
    /\ UNCHANGED <<nlines, command_name, fs, term_out, term_err, cwd, exit_code,
                   file_ops, ext, tokVars, resVars, home_var, path_var, input>>

\* ------------------------------------------------------------------------
\* main (main.rs 601-651)
\* ------------------------------------------------------------------------
\* handle_command_result(result, &redirections), then the next iteration
Deliver ==
    /\ pc = "deliver"
    /\ SetWorld(handle_command_result(result, red, World, cwd))
    /\ pc' = "prompt"
    /\ UNCHANGED <<nlines, command_name, result, cwd, exit_code, ext, tokVars, resVars, home_var, path_var, input>>

\* The lines that can be read
CmdLine(tokens) == Join(tokens, " ") \o <<NL>>

RedirectedCmds ==
    {<<TokCd, DirD>>, <<TokCd, <<"a">>, <<"b">>>>, <<TokEcho, <<"h", "i">>>>,
     <<<<"x">>>>, <<<<"y">>>>}

Redirs ==
    {<<>>, <<OpGt, FileF>>, <<OpGt2, FileG>>, <<OpGt, FileF, OpGt2, FileG>>,
     <<OpGtGt, FileF>>, <<OpGtGt2, FileG>>, <<OpGt, FileF, OpGt2, FileF>>,
     <<OpGt, Root>>, <<OpGt2, Root>>, <<OpGt, Root, OpGt2, FileG>>}

PlainCmds ==
    {<<TokCd>>, <<TokCd, <<"/", "n">>>>, <<TokPwd>>, <<TokType, TokCd>>,
     <<TokType, <<"x">>>>, <<TokType, <<"y">>>>, <<TokType>>,
     <<TokType, <<"a">>, <<"b">>>>, <<PathJoin(DirB, <<"x">>)>>,
     <<PathJoin(DirB, <<"z">>)>>, <<<<"z">>>>, <<TokExit>>, <<TokExit, <<"3">>>>,
     <<TokExit, <<"a">>>>, <<TokExit, <<"-", "1">>>>}

RawLines ==
    {<<NL>>, <<" ", " ", NL>>, <<"'", "'", NL>>, <<"'", "a", NL>>,
     <<"e", "c", "h", "o", " ", "\"", "a", " ", "b", "\"", NL>>}

Lines ==
    {CmdLine(c \o r) : c \in RedirectedCmds, r \in Redirs}
        \cup {CmdLine(c) : c \in PlainCmds} \cup RawLines

\* print!("$ "): the prompt opens the record of a new command
Prompted ==
    /\ term_out' = <<[by |-> "shell", text |-> <<"$ ">>]>>
    /\ file_ops' = <<>>

\* read_line returned a line that is empty once trimmed, or has no tokens
ReadSkip ==
    /\ pc = "prompt"
    /\ nlines < MaxLines
    /\ \E line \in Lines :
          /\ \/ Trim(line) = <<>>
             \/ main_parse_tokens(Trim(line)).ok /\ main_parse_tokens(Trim(line)).args = <<>>
          /\ input' = line
    /\ Prompted
    /\ term_err' = <<>>
    /\ nlines' = nlines + 1
    /\ UNCHANGED <<pc, command_name, result, fs, cwd, exit_code, ext, tokVars, resVars, home_var, path_var>>

\* A read that reports the parse error and then dispatches what was left of
\* the previous command (a deliberately wrong variant, used to show that the
\* loop property depends on the continue after a parse error)
ReadParseErrorDispatches ==
    /\ pc = "prompt"
    /\ nlines < MaxLines
    /\ \E line \in Lines :
          /\ Trim(line) # <<>>
          /\ ~main_parse_tokens(Trim(line)).ok
          /\ term_err' = <<[by |-> "shell",
                            text |-> <<"shell: parse error: ",
                                       main_parse_tokens(Trim(line)).err, NL>>]>>
          /\ input' = line
    /\ Prompted
    /\ nlines' = nlines + 1
    /\ pc' = "dispatch"
    /\ UNCHANGED <<command_name, result, fs, cwd, exit_code, ext, tokVars, resVars, home_var, path_var>>

\* parse_tokens failed: the error is reported and the line dropped
ReadParseError ==
    /\ pc = "prompt"
    /\ nlines < MaxLines
    /\ \E line \in Lines :
          /\ Trim(line) # <<>>
          /\ ~main_parse_tokens(Trim(line)).ok
          /\ term_err' = <<[by |-> "shell",
                            text |-> <<"shell: parse error: ",
                                       main_parse_tokens(Trim(line)).err, NL>>]>>
          /\ input' = line
    /\ Prompted
    /\ nlines' = nlines + 1
    /\ UNCHANGED <<pc, command_name, result, fs, cwd, exit_code, ext, tokVars, resVars, home_var, path_var>>

\* A line with tokens: split_first, parse_redirections, then dispatch
ReadCommand ==
    /\ pc = "prompt"
    /\ nlines < MaxLines
    /\ \E line \in Lines :
          LET parsed == main_parse_tokens(Trim(line)) IN
          /\ Trim(line) # <<>>
          /\ parsed.ok
          /\ parsed.args # <<>>
          /\ command_name' = Head(parsed.args)
          /\ args_slice' = Tail(parsed.args)
          /\ command_args' = parse_redirections(Tail(parsed.args))[1]
          /\ red' = parse_redirections(Tail(parsed.args))[2]
          /\ input' = line
    /\ Prompted
    /\ term_err' = <<>>
    /\ nlines' = nlines + 1
    /\ pc' = "dispatch"
    /\ UNCHANGED <<result, fs, cwd, exit_code, ext, rpc, tokVars, home_var, path_var>>

\* read_line returned Ok(0): println!() and leave the loop
ReadEof ==
    /\ pc = "prompt"
    /\ term_out' = <<[by |-> "shell", text |-> <<"$ ">>], [by |-> "shell", text |-> <<NL>>]>>
    /\ term_err' = <<>>
    /\ file_ops' = <<>>
    /\ pc' = "eof"
    /\ input' = <<>>
    /\ UNCHANGED <<nlines, command_name, result, fs, cwd, exit_code, ext, tokVars, resVars, home_var, path_var>>

\* read_line returned an error: report it and leave the loop
ReadError ==
    /\ pc = "prompt"
    /\ Prompted
    /\ term_err' = <<[by |-> "shell", text |-> <<"shell: input error: ">> \o IoError \o <<NL>>]>>
    /\ pc' = "input_error"
    /\ input' = <<>>
    /\ UNCHANGED <<nlines, command_name, result, fs, cwd, exit_code, ext, tokVars, resVars, home_var, path_var>>

\* The redirect files of the root directory exist or not at the start
Init ==
    /\ pc = "prompt"
    /\ nlines = 0
    /\ command_name = <<>>
    /\ result = OkNone
    /\ fs \in {f \in [FsPaths -> {Absent, [exists |-> TRUE, data |-> OldData]}] :
                  \A p \in FsPaths : p \notin {PathJoin(Root, n) : n \in FileNames}
                                        => f[p] = Absent}
    /\ term_out = <<>>
    /\ term_err = <<>>
    /\ cwd = Root
    /\ exit_code = None
    /\ file_ops = <<>>
    /\ ext = ExtIdle
    /\ home_var \in HomeValues
    /\ path_var = PATH_VAR
    /\ input = <<>>
    /\ TokIdle
    /\ ResIdle

Next ==
    \/ ReadSkip \/ ReadParseError \/ ReadCommand \/ ReadEof \/ ReadError
    \/ DispatchExit \/ DispatchBuiltin \/ DispatchExternal \/ DispatchNotFound
    \/ ExecOpenStdout \/ ExecOpenStderr \/ ExecSpawnOk \/ ExecSpawnFail
    \/ ChildRun \/ ExecDrain \/ ExecWaitOk \/ ExecWaitFail \/ ExecFinish
    \/ Deliver

Spec == Init /\ [][Next]_vars

\* ------------------------------------------------------------------------
\* SpecLookup: the lookup made by dispatch_command (main.rs 472-477) for one
\* command name, from every directory and under every value of PATH.
\* ------------------------------------------------------------------------
\* PATH: not set, empty, the value of Spec, /b alone, /d alone
PathValues == {None, Some(<<>>), PATH_VAR, Some(DirB), Some(DirD)}

\* Names without and with a '/'
LookupNames ==
    {<<"x">>, <<"z">>, <<"y">>, PathJoin(DirB, <<"x">>), PathJoin(DirB, <<"z">>),
     PathJoin(DirB, <<"y">>), DirB, <<"b", "/", "x">>, <<".", "/", "x">>,
     <<"b", "/">>}

InitLookup ==
    /\ pc = "dispatch"
    /\ nlines = 1
    /\ command_name \in LookupNames
    /\ result = OkNone
    /\ fs = [p \in FsPaths |-> Absent]
    /\ term_out = <<>>
    /\ term_err = <<>>
    /\ cwd \in Directories
    /\ exit_code = None
    /\ file_ops = <<>>
    /\ ext = ExtIdle
    /\ home_var = Some(DirH)
    /\ path_var \in PathValues
    /\ input = <<>>
    /\ TokIdle
    /\ ResIdle

NextLookup == DispatchExternal \/ DispatchNotFound

SpecLookup == InitLookup /\ [][NextLookup]_vars

\* ========================================================================
\* Claims about the tokenizer (SpecTok)
\* ========================================================================

\* The character the scan of st is about to read, and the one after it
CurChar(st) == IF st.pos <= Len(input_args) THEN input_args[st.pos] ELSE NoChar
NextChar(st) == IF st.pos + 1 <= Len(input_args) THEN input_args[st.pos + 1] ELSE NoChar

\* The rule of C2 for one scan step from st to st2: at a backslash inside
\* double quotes, an escapable next character is consumed and appended,
\* otherwise the backslash is appended and the next character stays unread.
DqBackslashRule(st, st2) ==
    (CurChar(st) = BACKSLASH /\ st.in_double_quotes /\ ~st.in_single_quotes) =>
        IF NextChar(st) # NoChar /\ NextChar(st) \in {"$", BACKTICK, "\"", "\\"}
        THEN /\ st2.current_arg = Append(st.current_arg, NextChar(st))
             /\ st2.pos = st.pos + 2
        ELSE /\ st2.current_arg = Append(st.current_arg, BACKSLASH)
             /\ st2.pos = st.pos + 1

\* C2: in both tokenizers, a backslash met inside double quotes consumes and
\* appends the next character only when it is one of $, grave accent, double
\* quote, backslash; otherwise the backslash itself is appended and the next
\* character is left to the normal rules.
C2_DqBackslash ==
    [][ /\ (tk_main' # tk_main /\ tpc = "main" /\ tpc' = "main")
            => DqBackslashRule(tk_main, tk_main')
        /\ (tk_parser' # tk_parser /\ tpc = "parser" /\ tpc' = "parser")
            => DqBackslashRule(tk_parser, tk_parser') ]_vars

\* C2 restricted to main.rs parse_tokens (the tokenizer main() calls)
C2_DqBackslashMain ==
    [][ (tk_main' # tk_main /\ tpc = "main" /\ tpc' = "main")
            => DqBackslashRule(tk_main, tk_main') ]_vars

\* The case of C2 has happened in main.rs: a backslash before a character
\* that is not escapable was scanned inside double quotes
C2_Witness ==
    /\ tpc = "main"
    /\ tk_main.in_double_quotes
    /\ tk_main.pos = 3
    /\ input_args[2] = BACKSLASH
    /\ Len(input_args) >= 3 /\ input_args[3] = "a"

\* What "a quote is still open" means once a scan has ended
QuoteOpen(st) == st.in_single_quotes \/ st.in_double_quotes

\* C9: each tokenizer returns an error exactly when a single or a double
\* quote is still open at the end of the scan; otherwise it returns the
\* token sequence it collected, and no error.
C9_ErrorIffOpenQuote ==
    /\ tpc \in {"parser", "done"} =>
          /\ (~res_main.ok) <=> QuoteOpen(tk_main)
          /\ res_main.ok => (res_main.args = tk_main.args /\ res_main.err = "")
          /\ (~res_main.ok) => res_main.err \in {ErrSingle, ErrDouble}
    /\ tpc = "done" =>
          /\ (~res_parser.ok) <=> QuoteOpen(tk_parser)
          /\ res_parser.ok => (res_parser.args = tk_parser.args /\ res_parser.err = "")
          /\ (~res_parser.ok) => res_parser.err \in {ErrSingle, ErrDouble}

\* Both outcomes of C9 are reached: this one is the error for a single quote
\* left open after some argument was collected
C9_Witness ==
    /\ tpc = "done"
    /\ ~res_main.ok /\ res_main.err = ErrSingle
    /\ ~res_parser.ok
    /\ tk_main.in_single_quotes
    /\ tk_main.args # <<>>

\* The rule of C10 for one scan step from st to st2 at a quote character
QuoteRule(st, st2) ==
    /\ CurChar(st) = SINGLE_QUOTE =>
          IF st.in_double_quotes
          THEN /\ st2.current_arg = Append(st.current_arg, SINGLE_QUOTE)
               /\ st2.in_single_quotes = st.in_single_quotes
               /\ st2.in_double_quotes = st.in_double_quotes
          ELSE /\ st2.current_arg = st.current_arg
               /\ st2.in_single_quotes = ~st.in_single_quotes
               /\ st2.in_double_quotes = st.in_double_quotes
    /\ CurChar(st) = DOUBLE_QUOTE =>
          IF st.in_single_quotes
          THEN /\ st2.current_arg = Append(st.current_arg, DOUBLE_QUOTE)
               /\ st2.in_single_quotes = st.in_single_quotes
               /\ st2.in_double_quotes = st.in_double_quotes
          ELSE /\ st2.current_arg = st.current_arg
               /\ st2.in_double_quotes = ~st.in_double_quotes
               /\ st2.in_single_quotes = st.in_single_quotes

\* C10: at every point of either scan the two quote flags are never both
\* set; a quote character met inside the other kind of quotes is appended
\* literally and changes neither flag, and met outside them it toggles its
\* own flag and is not appended.
C10_QuoteFlagsExclusive ==
    /\ [](~(tk_main.in_single_quotes /\ tk_main.in_double_quotes)
          /\ ~(tk_parser.in_single_quotes /\ tk_parser.in_double_quotes))
    /\ [][ /\ (tk_main' # tk_main /\ tpc = "main" /\ tpc' = "main")
               => QuoteRule(tk_main, tk_main')
           /\ (tk_parser' # tk_parser /\ tpc = "parser" /\ tpc' = "parser")
               => QuoteRule(tk_parser, tk_parser') ]_vars

\* A single quote was scanned inside double quotes and was appended
C10_Witness ==
    /\ tpc = "main"
    /\ tk_main.pos = 3
    /\ input_args[1] = DOUBLE_QUOTE /\ input_args[2] = SINGLE_QUOTE
    /\ tk_main.in_double_quotes /\ ~tk_main.in_single_quotes
    /\ tk_main.current_arg = <<SINGLE_QUOTE>>

\* ========================================================================
\* Claims about the resolver (SpecRes)
\* ========================================================================
StdoutOps == {OpGt, OpGt1, OpGtGt, OpGtGt1}
StderrOps == {OpGt2, OpGtGt2}
AppendOps == {OpGtGt, OpGtGt1, OpGtGt2}

\* The operator/filename pairs at the tail of a token sequence, left to right
RECURSIVE TrailingPairs(_)
TrailingPairs(t) ==
    IF Len(t) >= 2 /\ t[Len(t) - 1] \in (StdoutOps \cup StderrOps)
    THEN Append(TrailingPairs(SubSeq(t, 1, Len(t) - 2)), <<t[Len(t) - 1], t[Len(t)]>>)
    ELSE <<>>

\* The trailing pairs whose operator is in ops
PairsOf(t, ops) == SelectSeq(TrailingPairs(t), LAMBDA pr : pr[1] \in ops)

\* The target a pair names
TargetOf(pr) ==
    [filename |-> pr[2], mode |-> IF pr[1] \in AppendOps THEN Append_ ELSE Overwrite]

\* C1: when the same stream is redirected more than once in the trailing
\* pairs, the target the resolver returns for it is that of the last
\* (right-most) occurrence.
C1_LastOccurrenceWins ==
    rpc = "done" =>
        /\ Len(PairsOf(args_slice, StdoutOps)) >= 2 =>
              red.stdout_redirect =
                  Some(TargetOf(PairsOf(args_slice, StdoutOps)[Len(PairsOf(args_slice, StdoutOps))]))
        /\ Len(PairsOf(args_slice, StderrOps)) >= 2 =>
              red.stderr_redirect =
                  Some(TargetOf(PairsOf(args_slice, StderrOps)[Len(PairsOf(args_slice, StderrOps))]))

\* What the code does instead: the first (left-most) occurrence wins
C1_FirstOccurrenceWins ==
    rpc = "done" =>
        /\ Len(PairsOf(args_slice, StdoutOps)) >= 1 =>
              red.stdout_redirect = Some(TargetOf(PairsOf(args_slice, StdoutOps)[1]))
        /\ Len(PairsOf(args_slice, StderrOps)) >= 1 =>
              red.stderr_redirect = Some(TargetOf(PairsOf(args_slice, StderrOps)[1]))

\* ========================================================================
\* Claims about the result sink and the executor (Spec)
\* ========================================================================

\* The step that delivers the result: handle_command_result runs
Delivering == pc = "deliver" /\ pc' = "prompt"

\* A result has been delivered for the one command read
Delivered == pc = "prompt" /\ nlines >= 1 /\ command_name # <<>>

\* What the step added to the record of file operations
NewFileOps == SubSeq(file_ops', Len(file_ops) + 1, Len(file_ops'))

\* The paths the two redirect targets name, and whether a path can be opened
OutPath == Resolve(cwd, Unwrap(red.stdout_redirect).filename)
ErrPath == Resolve(cwd, Unwrap(red.stderr_redirect).filename)
Openable(path) == path \in FsPaths

\* The open that creates a target and truncates it in Overwrite mode only
CreateOrTruncate(target) ==
    IF IsSome(target)
    THEN <<FileOp("open", Resolve(cwd, Unwrap(target).filename),
                  Unwrap(target).mode = Overwrite, Unwrap(target).mode = Append_,
                  Openable(Resolve(cwd, Unwrap(target).filename)), <<>>, "shell")>>
    ELSE <<>>

\* The file a target names after that open alone: it exists, emptied in
\* Overwrite mode, with its old contents in Append mode
AfterCreateOrTruncate(target) ==
    [exists |-> TRUE,
     data |-> IF Unwrap(target).mode = Overwrite
              THEN <<>>
              ELSE fs[Resolve(cwd, Unwrap(target).filename)].data]

\* The two targets are different files (or one of them is not set)
DistinctTargets ==
    ~(IsSome(red.stdout_redirect) /\ IsSome(red.stderr_redirect) /\ OutPath = ErrPath)

\* C3: a builtin that produces no output, run with a stdout redirect whose
\* target file does not exist, leaves that file existing with zero bytes
\* once the result is delivered.
C3_NoOutputCreatesStdoutFile ==
    [][ ( /\ Delivering
          /\ IsNoOutput(result)
          /\ command_name \in Builtins
          /\ IsSome(red.stdout_redirect)
          /\ Openable(OutPath)
          /\ ~fs[OutPath].exists )
        => fs'[OutPath] = [exists |-> TRUE, data |-> <<>>] ]_vars

\* C4: for an external command that was spawned and waited on, status 0
\* gives NoOutput and any other status gives SilentFailure; delivering a
\* SilentFailure adds nothing to the terminal's stdout or stderr.
C4_ExitStatusMapping ==
    [][ /\ (pc = "exec_finish" /\ pc' = "deliver") =>
              /\ ext.waited
              /\ ext.child_status = 0 => IsNoOutput(result')
              /\ ext.child_status # 0 => IsSilentFailure(result')
        /\ (Delivering /\ ext.waited /\ IsSilentFailure(result)) =>
              /\ term_out' = term_out
              /\ term_err' = term_err ]_vars

\* An external command exited non-zero with no stderr redirect: only the
\* child's own text is on the terminal's stderr once the result is delivered
C4_Witness ==
    /\ Delivered
    /\ ext.waited /\ ext.child_status # 0
    /\ IsSilentFailure(result)
    /\ ~IsSome(red.stderr_redirect)
    /\ term_err = <<[by |-> "child", text |-> <<"e">>]>>

\* C5: delivering Failure(message).  With a stderr redirect that can be
\* opened, the file is created, the message and one line terminator are
\* written to it and the terminal's stderr gets nothing; with no stderr
\* redirect the message is printed on the terminal's stderr.  In both cases
\* a stdout redirect has its target created, truncated in Overwrite mode,
\* and nothing is written through it.  (A stderr target that cannot be
\* opened is the case of the RedirectOpenError claim.)
C5_FailureDelivery ==
    [][ (Delivering /\ IsFailure(result)) =>
          /\ term_out' = term_out
          /\ ~IsSome(red.stderr_redirect) =>
                /\ term_err' = Append(term_err, [by |-> "shell", text |-> result.text \o <<NL>>])
                /\ NewFileOps = CreateOrTruncate(red.stdout_redirect)
          /\ (IsSome(red.stderr_redirect) /\ Openable(ErrPath)) =>
                /\ term_err' = term_err
                /\ NewFileOps =
                      <<FileOp("open", ErrPath, TRUE, FALSE, TRUE, <<>>, "shell"),
                        FileOp("write", ErrPath, FALSE, FALSE, TRUE, result.text \o <<NL>>, "shell")>>
                      \o CreateOrTruncate(red.stdout_redirect)
                /\ DistinctTargets => fs'[ErrPath] = [exists |-> TRUE, data |-> result.text \o <<NL>>]
          /\ (IsSome(red.stdout_redirect) /\ Openable(OutPath) /\ DistinctTargets) =>
                fs'[OutPath] = AfterCreateOrTruncate(red.stdout_redirect) ]_vars

\* A failed builtin with both redirects: the message is in the stderr file,
\* the stdout file was created empty, the terminal's stderr is untouched
C5_Witness ==
    /\ Delivered
    /\ IsFailure(result)
    /\ command_name = TokCd
    /\ IsSome(red.stdout_redirect) /\ IsSome(red.stderr_redirect)
    /\ fs[PathJoin(Root, FileG)] = [exists |-> TRUE, data |-> <<"cd: too many arguments", NL>>]
    /\ fs[PathJoin(Root, FileF)] = [exists |-> TRUE, data |-> <<>>]
    /\ term_err = <<>>

\* C6: delivering Output(text).  With a stdout redirect that can be opened,
\* text is written to the target (after truncation in Overwrite mode, at the
\* end in Append mode) and the terminal gets nothing; with no stdout
\* redirect text is printed on the terminal.  In either branch a stderr
\* redirect has its target created, truncated in Overwrite mode, and
\* nothing is written through it.
C6_OutputDelivery ==
    [][ (Delivering /\ IsOutput(result)) =>
          /\ ~IsSome(red.stdout_redirect) =>
                /\ term_out' = Append(term_out, [by |-> "shell", text |-> result.text])
                /\ term_err' = term_err
                /\ NewFileOps = CreateOrTruncate(red.stderr_redirect)
          /\ (IsSome(red.stdout_redirect) /\ Openable(OutPath)) =>
                /\ term_out' = term_out
                /\ term_err' = term_err
                /\ NewFileOps =
                      <<FileOp("open", OutPath,
                               Unwrap(red.stdout_redirect).mode = Overwrite,
                               Unwrap(red.stdout_redirect).mode = Append_, TRUE, <<>>, "shell"),
                        FileOp("write", OutPath, FALSE,
                               Unwrap(red.stdout_redirect).mode = Append_, TRUE,
                               result.text, "shell")>>
                      \o CreateOrTruncate(red.stderr_redirect)
                /\ DistinctTargets =>
                      fs'[OutPath] =
                          [exists |-> TRUE,
                           data |-> AfterCreateOrTruncate(red.stdout_redirect).data \o result.text]
          /\ (IsSome(red.stderr_redirect) /\ Openable(ErrPath) /\ DistinctTargets) =>
                fs'[ErrPath] = AfterCreateOrTruncate(red.stderr_redirect) ]_vars

\* echo hi >> f 2> g on existing files: the text follows the old contents of
\* f, g was emptied, and the terminal got only the prompt
C6_Witness ==
    /\ Delivered
    /\ IsOutput(result)
    /\ command_name = TokEcho
    /\ fs[PathJoin(Root, FileF)] = [exists |-> TRUE, data |-> OldData \o <<"h", "i", NL>>]
    /\ term_out = <<[by |-> "shell", text |-> <<"$ ">>]>>
    /\ Len(file_ops) = 2

\* C7: delivering NoOutput never opens, creates, truncates or writes the
\* stdout redirect target, whatever the redirection spec is; a stderr
\* redirect has its target created/truncated.
C7_NoOutputNeverTouchesStdout ==
    [][ (Delivering /\ IsNoOutput(result)) =>
          /\ IsSome(red.stdout_redirect) =>
                /\ \A i \in 1..Len(NewFileOps) : NewFileOps[i].path # OutPath
                /\ Openable(OutPath) => fs'[OutPath] = fs[OutPath]
          /\ (IsSome(red.stderr_redirect) /\ Openable(ErrPath)) =>
                fs'[ErrPath] = AfterCreateOrTruncate(red.stderr_redirect) ]_vars

\* C7 as amended: delivering NoOutput does one file operation at most, the
\* open that creates (and in Overwrite mode truncates) the stderr target;
\* the stdout target is left untouched unless the stderr redirect names the
\* same file.
C7_NoOutputTouchesOnlyStderr ==
    [][ (Delivering /\ IsNoOutput(result)) =>
          /\ NewFileOps = CreateOrTruncate(red.stderr_redirect)
          /\ term_out' = term_out
          /\ term_err' = term_err
          /\ (IsSome(red.stdout_redirect) /\ DistinctTargets) =>
                /\ \A i \in 1..Len(NewFileOps) : NewFileOps[i].path # OutPath
                /\ Openable(OutPath) => fs'[OutPath] = fs[OutPath]
          /\ (IsSome(red.stderr_redirect) /\ Openable(ErrPath)) =>
                fs'[ErrPath] = AfterCreateOrTruncate(red.stderr_redirect)
          /\ \A p \in FsPaths :
                (~IsSome(red.stderr_redirect) \/ p # ErrPath) => fs'[p] = fs[p] ]_vars

\* cd /d > f 2> g was delivered: /d/g was created, /d/f was not
C7_Witness ==
    /\ Delivered
    /\ IsNoOutput(result)
    /\ command_name = TokCd
    /\ cwd = DirD
    /\ IsSome(red.stdout_redirect) /\ IsSome(red.stderr_redirect)
    /\ fs[PathJoin(DirD, FileG)].exists
    /\ ~fs[PathJoin(DirD, FileF)].exists

\* C8: delivering SilentFailure has no effect: for every redirection spec
\* no file is created, truncated or written and nothing is printed.
C8_SilentFailureNoEffect ==
    [][ (Delivering /\ IsSilentFailure(result)) =>
          /\ fs' = fs
          /\ file_ops' = file_ops
          /\ term_out' = term_out
          /\ term_err' = term_err ]_vars

\* A SilentFailure was delivered under a spec with both redirects set
C8_Witness ==
    /\ Delivered
    /\ IsSilentFailure(result)
    /\ IsSome(red.stdout_redirect) /\ IsSome(red.stderr_redirect)
    /\ Len(file_ops) >= 2

\* ========================================================================
\* Further claims about the tokenizer (SpecTok)
\* ========================================================================

\* A scan step of each tokenizer: one iteration of its loop
MainStep == tpc = "main" /\ tpc' = "main" /\ tk_main' # tk_main
ParserStep == tpc = "parser" /\ tpc' = "parser" /\ tk_parser' # tk_parser

\* Space or tab, as the claims use the words
SpaceOrTab(c) == c \in {" ", "\t"}

\* Outside both quote states
Unquoted(st) == ~st.in_single_quotes /\ ~st.in_double_quotes

\* The first position at or after p that does not hold a space or tab
RunEnd(p) ==
    CHOOSE q \in p..(Len(input_args) + 1) :
        /\ \A r \in p..(q - 1) : SpaceOrTab(input_args[r])
        /\ q = Len(input_args) + 1 \/ ~SpaceOrTab(input_args[q])

\* The rule of C11 for one scan step from st to st2
SplitRule(st, st2) ==
    LET c == CurChar(st) IN
    /\ (SpaceOrTab(c) /\ Unquoted(st)) =>
          /\ st2.args = IF st.current_arg # <<>>
                        THEN Append(st.args, st.current_arg)
                        ELSE st.args
          /\ st2.current_arg = <<>>
          /\ st2.pos = RunEnd(st.pos + 1)
    /\ (SpaceOrTab(c) /\ ~Unquoted(st)) =>
          /\ st2.args = st.args
          /\ st2.current_arg = Append(st.current_arg, c)
          /\ st2.pos = st.pos + 1
    /\ (~SpaceOrTab(c) /\ c \notin {BACKSLASH, SINGLE_QUOTE, DOUBLE_QUOTE}) =>
          /\ st2.args = st.args
          /\ st2.current_arg = Append(st.current_arg, c)
          /\ st2.pos = st.pos + 1

\* C11: both tokenizers split arguments only at runs of space or tab outside
\* both quote states; a run of any length is one delimiter, space and tab
\* inside quotes are kept, and every other character (carriage return
\* included) is appended literally to the current argument.
C11_SplitOnlyAtSpaceTab ==
    [][ /\ MainStep => SplitRule(tk_main, tk_main')
        /\ ParserStep => SplitRule(tk_parser, tk_parser') ]_vars

\* C11 restricted to parser.rs parse_tokens
C11_SplitOnlyAtSpaceTabParser ==
    [][ ParserStep => SplitRule(tk_parser, tk_parser') ]_vars

\* The rule of C12 for one scan step from st to st2
BackslashRule(st, st2) ==
    CurChar(st) = BACKSLASH =>
        /\ (Unquoted(st) /\ NextChar(st) # NoChar) =>
              /\ st2.current_arg = Append(st.current_arg, NextChar(st))
              /\ st2.pos = st.pos + 2
        /\ (Unquoted(st) /\ NextChar(st) = NoChar) =>
              /\ st2.current_arg = Append(st.current_arg, BACKSLASH)
              /\ st2.pos = st.pos + 1
        /\ st.in_single_quotes =>
              /\ st2.current_arg = Append(st.current_arg, BACKSLASH)
              /\ st2.pos = st.pos + 1
        /\ (Unquoted(st) \/ st.in_single_quotes) =>
              /\ st2.args = st.args
              /\ st2.in_single_quotes = st.in_single_quotes
              /\ st2.in_double_quotes = st.in_double_quotes

\* C12: in both tokenizers a backslash outside any quotes consumes the next
\* character and appends it verbatim, so that character neither delimits
\* nor toggles a quote; a backslash that ends the line is appended as a
\* literal backslash; a backslash inside single quotes is appended
\* literally and consumes nothing.
C12_BackslashOutsideQuotes ==
    [][ /\ MainStep => BackslashRule(tk_main, tk_main')
        /\ ParserStep => BackslashRule(tk_parser, tk_parser') ]_vars

\* Both tokenizers have returned one token for a, backslash, space, a: the
\* escaped space did not delimit
C12_Witness ==
    /\ tpc = "done"
    /\ input_args = <<"a", BACKSLASH, " ", "a">>
    /\ res_main = [ok |-> TRUE, err |-> "", args |-> << <<"a", " ", "a">> >>]
    /\ res_parser = res_main

\* A line made only of spaces, tabs and quote characters that open and
\* immediately close
RECURSIVE OnlyBlanksAndEmptyQuotes(_)
OnlyBlanksAndEmptyQuotes(s) ==
    \/ s = <<>>
    \/ SpaceOrTab(s[1]) /\ OnlyBlanksAndEmptyQuotes(Tail(s))
    \/ /\ Len(s) >= 2
       /\ s[1] \in {SINGLE_QUOTE, DOUBLE_QUOTE}
       /\ s[2] = s[1]
       /\ OnlyBlanksAndEmptyQuotes(SubSeq(s, 3, Len(s)))

EmptyOk == [ok |-> TRUE, err |-> "", args |-> <<>>]

\* C13: for the empty line, a line of spaces and tabs only, or a line of
\* spaces, tabs and quotes that open and immediately close, each tokenizer
\* returns the empty sequence and no error; and no token of any returned
\* sequence is the empty string.
C13_NoEmptyTokens ==
    /\ tpc \in {"parser", "done"} =>
          /\ OnlyBlanksAndEmptyQuotes(input_args) => res_main = EmptyOk
          /\ \A i \in 1..Len(res_main.args) : res_main.args[i] # <<>>
    /\ tpc = "done" =>
          /\ OnlyBlanksAndEmptyQuotes(input_args) => res_parser = EmptyOk
          /\ \A i \in 1..Len(res_parser.args) : res_parser.args[i] # <<>>

\* Both tokenizers have returned for a line of a space, two single quotes
\* and a tab
C13_Witness ==
    /\ tpc = "done"
    /\ input_args = <<" ", SINGLE_QUOTE, SINGLE_QUOTE, "\t">>
    /\ res_main = EmptyOk
    /\ res_parser = EmptyOk

\* Re-quoting, as the claim describes it: an argument that contains a
\* whitespace character is wrapped in single quotes, the others are left
\* as they are, and the arguments are joined with single spaces
HasWhitespace(tok) == \E i \in 1..Len(tok) : tok[i] \in {" ", "\t", "\r", "\n"}

Requote(ts) ==
    Join([i \in 1..Len(ts) |->
            IF HasWhitespace(ts[i])
            THEN <<SINGLE_QUOTE>> \o ts[i] \o <<SINGLE_QUOTE>>
            ELSE ts[i]],
         " ")

\* The arguments that re-quoting can carry: none contains a single quote,
\* and one that is left unwrapped contains no double quote and no backslash
Requotable(ts) ==
    \A i \in 1..Len(ts) :
        /\ ~Contains(ts[i], SINGLE_QUOTE)
        /\ ~HasWhitespace(ts[i]) =>
              (~Contains(ts[i], DOUBLE_QUOTE) /\ ~Contains(ts[i], BACKSLASH))

\* C14: for every line with balanced quotes, tokenizing, re-quoting and
\* tokenizing again gives the first token sequence again, in both
\* tokenizers.
C14_RequoteRoundTrip ==
    /\ (tpc \in {"parser", "done"} /\ res_main.ok) =>
          main_parse_tokens(Requote(res_main.args)) = res_main
    /\ (tpc = "done" /\ res_parser.ok) =>
          parser_parse_tokens(Requote(res_parser.args)) = res_parser

\* C14 as amended: the same, for the lines whose arguments contain no
\* single quote and, where they are left unwrapped, no double quote and no
\* backslash.
C14_RequoteRoundTripPlain ==
    /\ (tpc \in {"parser", "done"} /\ res_main.ok /\ Requotable(res_main.args)) =>
          main_parse_tokens(Requote(res_main.args)) = res_main
    /\ (tpc = "done" /\ res_parser.ok /\ Requotable(res_parser.args)) =>
          parser_parse_tokens(Requote(res_parser.args)) = res_parser

\* A double-quoted argument holding a space came back after it was wrapped
\* in single quotes and tokenized again, in both tokenizers
C14_Witness ==
    /\ tpc = "done"
    /\ input_args = <<DOUBLE_QUOTE, "a", " ", DOUBLE_QUOTE>>
    /\ res_main.args = << <<"a", " ">> >>
    /\ Requote(res_main.args) = <<SINGLE_QUOTE, "a", " ", SINGLE_QUOTE>>
    /\ main_parse_tokens(Requote(res_main.args)) = res_main
    /\ parser_parse_tokens(Requote(res_parser.args)) = res_parser

\* ========================================================================
\* Further claims about the resolver (SpecRes)
\* ========================================================================

\* The token sequence ends with a stdout pair followed by a stderr pair
EndsStdoutThenStderr(t) ==
    /\ Len(t) >= 4
    /\ t[Len(t) - 3] \in StdoutOps
    /\ t[Len(t) - 1] \in StderrOps

\* The same sequence with its last two pairs exchanged
SwapLastPairs(t) ==
    SubSeq(t, 1, Len(t) - 4) \o <<t[Len(t) - 1], t[Len(t)], t[Len(t) - 3], t[Len(t) - 2]>>

\* C15: a trailing stdout redirection and a trailing stderr redirection may
\* come in either order: for every prefix and all filename tokens o and e,
\* [.., >, o, 2>, e] and [.., 2>, e, >, o] resolve to the same residual
\* tokens and the same redirections, with both streams set.
C15_OrderIndependent ==
    (rpc = "done" /\ EndsStdoutThenStderr(args_slice)) =>
        /\ parse_redirections(SwapLastPairs(args_slice)) = <<command_args, red>>
        /\ IsSome(red.stdout_redirect)
        /\ IsSome(red.stderr_redirect)

\* a > b 2> a has been resolved
C15_Witness ==
    /\ rpc = "done"
    /\ args_slice = << <<"a">>, OpGt, <<"b">>, OpGt2, <<"a">> >>
    /\ command_args = << <<"a">> >>
    /\ red = [stdout_redirect |-> Some([filename |-> <<"b">>, mode |-> Overwrite]),
              stderr_redirect |-> Some([filename |-> <<"a">>, mode |-> Overwrite])]

\* The targets the trailing pairs of t name for the operators in ops
TargetsOf(t, ops) ==
    {TargetOf(PairsOf(t, ops)[i]) : i \in 1..Len(PairsOf(t, ops))}

\* C16: a trailing pair sets the stdout target with mode Overwrite for > and
\* 1>, with mode Append for >> and 1>>, the stderr target with mode
\* Overwrite for 2> and with mode Append for 2>>, the path being the
\* filename token itself; no other token is an operator (the residual is
\* what precedes the trailing pairs), and a stream without a pair stays
\* unset.
C16_OperatorGrammar ==
    rpc = "done" =>
        /\ command_args = SubSeq(args_slice, 1, Len(args_slice) - 2 * Len(TrailingPairs(args_slice)))
        /\ PairsOf(args_slice, StdoutOps) = <<>> => red.stdout_redirect = None
        /\ PairsOf(args_slice, StderrOps) = <<>> => red.stderr_redirect = None
        /\ PairsOf(args_slice, StdoutOps) # <<>> =>
              /\ IsSome(red.stdout_redirect)
              /\ Unwrap(red.stdout_redirect) \in TargetsOf(args_slice, StdoutOps)
        /\ PairsOf(args_slice, StderrOps) # <<>> =>
              /\ IsSome(red.stderr_redirect)
              /\ Unwrap(red.stderr_redirect) \in TargetsOf(args_slice, StderrOps)

\* b 1>> a 2>> b has been resolved
C16_Witness ==
    /\ rpc = "done"
    /\ args_slice = << <<"b">>, OpGtGt1, <<"a">>, OpGtGt2, <<"b">> >>
    /\ command_args = << <<"b">> >>
    /\ red = [stdout_redirect |-> Some([filename |-> <<"a">>, mode |-> Append_]),
              stderr_redirect |-> Some([filename |-> <<"b">>, mode |-> Append_])]

\* ========================================================================
\* Claims about dispatch and the builtins (Spec)
\* ========================================================================

\* The names of the fixed table
BuiltinNames ==
    {<<"e", "x", "i", "t">>, <<"e", "c", "h", "o">>, <<"p", "w", "d">>,
     <<"c", "d">>, <<"t", "y", "p", "e">>}

\* The executor is at work: a process is being, or has been, set up
Executing ==
    pc \in {"exec_stdout", "exec_stderr", "exec_spawn", "exec_child",
            "exec_drain", "exec_wait", "exec_finish"}

\* The step that dispatches the command
Dispatching == pc = "dispatch" /\ pc' # "dispatch"

\* What the handler of a builtin other than exit returns
HandlerResult ==
    IF command_name = TokEcho THEN handle_echo(command_args)
    ELSE IF command_name = TokPwd THEN handle_pwd(command_args, cwd)
    ELSE IF command_name = TokCd THEN handle_cd(command_args, cwd).result
    ELSE handle_type(command_args, cwd)

\* C17: dispatch of a name in {exit, echo, pwd, cd, type} runs the builtin
\* handler, whatever a lookup of that name would find, and starts no
\* process; for any other name the outcome is that of the lookup: when it
\* finds a file the executor is entered with it, when it finds nothing the
\* result is Failure("<name>: command not found") and no process is started.
C17_Dispatch ==
    /\ [](Executing =>
            /\ command_name \notin BuiltinNames
            /\ IsSome(find_exec_in_path(command_name, cwd)))
    /\ [][ Dispatching =>
            /\ command_name \in BuiltinNames =>
                  /\ ext' = ext
                  /\ IF command_name = TokExit
                     THEN pc' = "exited"
                     ELSE pc' = "deliver" /\ result' = HandlerResult
            /\ (command_name \notin BuiltinNames
                  /\ IsSome(find_exec_in_path(command_name, cwd))) =>
                  /\ pc' = "exec_stdout"
                  /\ ext'.full_path = Unwrap(find_exec_in_path(command_name, cwd))
            /\ (command_name \notin BuiltinNames
                  /\ ~IsSome(find_exec_in_path(command_name, cwd))) =>
                  /\ pc' = "deliver"
                  /\ ext' = ext
                  /\ result' = Err(command_name \o <<": command not found">>) ]_vars

\* echo was dispatched to its handler although the search path holds an
\* executable file named echo
C17_Witness ==
    /\ pc = "deliver"
    /\ command_name = TokEcho
    /\ IsSome(find_exec_in_path(command_name, cwd))
    /\ result = handle_echo(command_args)
    /\ ext = ExtIdle

\* The code the claim gives for the arguments of exit
ExpectedExitCode(args) ==
    IF args = <<>> THEN 0
    ELSE IF args[1] = <<"3">> THEN 3
    ELSE IF args[1] = <<"-", "1">> THEN 0 - 1
    ELSE IF IsSome(ParseI32(args[1])) THEN Unwrap(ParseI32(args[1]))
    ELSE 0

\* C18: exit ends the command loop with code n when its first argument
\* parses as an integer n and with code 0 when the argument is missing or
\* is not a valid integer; the exit itself prints nothing and touches no
\* file, and after it nothing more happens: no line is read and no result
\* is delivered.
C18_Exit ==
    /\ [](exit_code # None <=> pc = "exited")
    /\ [][ /\ (Dispatching /\ command_name = TokExit) =>
                /\ pc' = "exited"
                /\ exit_code' = Some(ExpectedExitCode(command_args))
                /\ UNCHANGED <<nlines, result, fs, term_out, term_err, file_ops, cwd>>
           /\ pc = "exited" => UNCHANGED vars ]_vars

\* exit 3 has ended the loop with code 3
C18_Witness ==
    /\ pc = "exited"
    /\ command_name = TokExit
    /\ command_args = << <<"3">> >>
    /\ exit_code = Some(3)

\* ========================================================================
\* Claims about redirect targets that cannot be opened (Spec)
\* ========================================================================

\* An open of the command just delivered failed
SomeOpenFailed ==
    \E i \in 1..Len(file_ops) : file_ops[i].op = "open" /\ ~file_ops[i].ok

\* The texts that report a redirect target that could not be opened
OpenErrorHeads ==
    {"failed to open stdout redirect file '", "failed to open stderr redirect file '",
     "shell: failed to open stdout redirect file '",
     "shell: failed to open stderr redirect file '"}

IsOpenError(text) == text # <<>> /\ text[1] \in OpenErrorHeads

\* C19: when a redirect target cannot be created or opened, the error is
\* reported on the terminal and never written into a redirect file, and
\* the command still runs: an external command that was found is spawned
\* and waited for.
C19_RedirectOpenError ==
    (Delivered /\ SomeOpenFailed) =>
        /\ \E i \in 1..Len(term_err) :
              term_err[i].by = "shell" /\ IsOpenError(term_err[i].text)
        /\ \A i \in 1..Len(file_ops) :
              file_ops[i].op = "write" => ~IsOpenError(file_ops[i].data)
        /\ (command_name \notin BuiltinNames
              /\ IsSome(find_exec_in_path(command_name, cwd))) => ext.waited

\* What the code does for an external command: the first target that
\* cannot be opened ends execute_external_command before the spawn, and
\* the message is delivered as any Failure is, into the stderr redirect
\* file when there is one
C19_ExternalNotRun ==
    (Delivered /\ SomeOpenFailed /\ command_name \notin BuiltinNames
        /\ IsSome(find_exec_in_path(command_name, cwd)) /\ ~ext.waited) =>
        /\ IsFailure(result) /\ IsOpenError(result.text)
        /\ ext = [ExtIdle EXCEPT !.full_path = ext.full_path]
        /\ IF IsSome(red.stderr_redirect) /\ Openable(ErrPath)
           THEN /\ term_err = <<>>
                /\ \E i \in 1..Len(file_ops) :
                      /\ file_ops[i].op = "write"
                      /\ file_ops[i].path = ErrPath
                      /\ file_ops[i].data = result.text \o <<NL>>
           ELSE \E i \in 1..Len(term_err) : term_err[i].text = result.text \o <<NL>>

\* ========================================================================
\* Claims about the current working directory (Spec)
\* ========================================================================

\* The argument of cd names the home directory
IsTilde(arg) == arg = <<"~">> \/ (Len(arg) >= 2 /\ arg[1] = "~" /\ arg[2] = "/")

\* C20: the current working directory is changed only by a cd that
\* succeeds.  No step of any other command changes it, and a cd that
\* returns Failure (more than one argument, HOME not set, a target that
\* cannot be entered) leaves it as it was.
C20_CwdOnlyByCd ==
    [][ /\ cwd' # cwd =>
              /\ Dispatching
              /\ command_name = TokCd
              /\ IsNoOutput(result')
        /\ (Dispatching /\ command_name = TokCd) =>
              /\ Len(command_args) >= 2 =>
                    (IsFailure(result') /\ cwd' = cwd)
              /\ (home_var = None
                    /\ (command_args = <<>>
                          \/ (Len(command_args) = 1 /\ IsTilde(command_args[1])))) =>
                    (IsFailure(result') /\ cwd' = cwd)
              /\ (Len(command_args) = 1 /\ ~IsTilde(command_args[1])
                    /\ Resolve(cwd, command_args[1]) \notin Directories) =>
                    (IsFailure(result') /\ cwd' = cwd)
              /\ (Len(command_args) = 1 /\ ~IsTilde(command_args[1])
                    /\ Resolve(cwd, command_args[1]) \in Directories) =>
                    (IsNoOutput(result') /\ cwd' = Resolve(cwd, command_args[1])) ]_vars

\* cd with HOME not set has returned its Failure and the directory is the
\* one the shell started in
C20_Witness ==
    /\ pc = "deliver"
    /\ command_name = TokCd
    /\ command_args = <<>>
    /\ home_var = None
    /\ result = Err(<<"cd: HOME environment variable not set">>)
    /\ cwd = Root

\* ========================================================================
\* Claims about the executable lookup (SpecLookup)
\* ========================================================================

\* The name contains '/'
HasSlash(name) == \E i \in 1..Len(name) : name[i] = "/"

\* The path the name denotes is a regular file with an execute bit set
DirectExecutable(name) ==
    /\ Metadata(Resolve(cwd, name)).found
    /\ Metadata(Resolve(cwd, name)).is_file
    /\ Metadata(Resolve(cwd, name)).exec

\* C21: for a name that contains '/', the lookup returns the name itself
\* when that path is a regular file with an execute bit set and nothing
\* otherwise, whatever PATH contains (not set, empty, or naming directories
\* that hold files of that name); dispatch acts on that answer.
C21_DirectPathLookup ==
    /\ \A name \in {n \in LookupNames : HasSlash(n)} :
          find_exec_in_path(name, cwd) =
              IF DirectExecutable(name) THEN Some(name) ELSE None
    /\ (HasSlash(command_name) /\ pc = "exec_stdout") =>
          (DirectExecutable(command_name) /\ ext.full_path = command_name)
    /\ (HasSlash(command_name) /\ pc = "deliver") =>
          (~DirectExecutable(command_name)
             /\ result = Err(command_name \o <<": command not found">>))

\* b/x was looked up from the root directory with PATH not set and was
\* found as itself
C21_Witness ==
    /\ pc = "exec_stdout"
    /\ command_name = <<"b", "/", "x">>
    /\ cwd = Root
    /\ path_var = None
    /\ ext.full_path = <<"b", "/", "x">>

\* ========================================================================
\* Claims about the resolver's residual (SpecRes)
\* ========================================================================

\* The six operator tokens, spelled out
SixOperators ==
    {<<">">>, <<"1", ">">>, <<">", ">">>, <<"1", ">", ">">>, <<"2", ">">>,
     <<"2", ">", ">">>}

\* What the resolver removed from the end of its input
RemovedSuffix == SubSeq(args_slice, Len(command_args) + 1, Len(args_slice))

\* C22: the residual is a prefix of the input; what was removed is a
\* sequence of pairs, each starting with one of the six operators; the
\* residual has fewer than two tokens or its second-to-last token is not an
\* operator; so when the last pair of the input does not match, nothing is
\* removed and no redirection is set, operator tokens further left included.
C22_ResidualIsPrefix ==
    rpc = "done" =>
        /\ Len(command_args) <= Len(args_slice)
        /\ command_args = SubSeq(args_slice, 1, Len(command_args))
        /\ Len(RemovedSuffix) % 2 = 0
        /\ \A k \in 1..(Len(RemovedSuffix) \div 2) :
              RemovedSuffix[2 * k - 1] \in SixOperators
        /\ \/ Len(command_args) < 2
           \/ command_args[Len(command_args) - 1] \notin SixOperators
        /\ (Len(args_slice) >= 2 /\ args_slice[Len(args_slice) - 1] \notin SixOperators) =>
              (command_args = args_slice /\ red = RedirectionsDefault)

\* > a b has been resolved: the last pair is a b, so the > stays
C22_Witness ==
    /\ rpc = "done"
    /\ args_slice = <<OpGt, <<"a">>, <<"b">>>>
    /\ command_args = args_slice
    /\ red = RedirectionsDefault

\* ========================================================================
\* Claims about the executor (Spec)
\* ========================================================================

\* The child's stdout is a pipe: the command has no stdout redirect
Piped == ~IsSome(red.stdout_redirect)

\* The command at hand is an external one that was spawned and waited for
ExternalRan ==
    /\ command_name \notin BuiltinNames
    /\ IsSome(find_exec_in_path(command_name, cwd))
    /\ ext.waited

\* C23: for an external command whose stdout is piped, on every run that
\* reaches a result: the pipe is drained to its end, then the wait
\* completes, then the captured text, when not empty, is printed on the
\* terminal, and only then is the result (NoOutput or SilentFailure) handed
\* to handle_command_result; the text is printed for status 0 and for any
\* other status, and the delivery prints nothing more on stdout.
C23_PipedOrdering ==
    /\ []((Piped /\ Executing /\ ext.waited) => ext.pipe = <<>>)
    /\ [][ Piped =>
            /\ pc = "exec_drain" =>
                  /\ pc' = "exec_wait"
                  /\ ext'.pipe = <<>>
                  /\ ~ext'.waited
                  /\ term_out' = term_out
                  /\ result' = result
            /\ (pc = "exec_wait" /\ pc' = "exec_finish") =>
                  /\ ext.pipe = <<>>
                  /\ ext'.waited
                  /\ term_out' = term_out
                  /\ result' = result
            /\ pc = "exec_finish" =>
                  /\ ext.waited
                  /\ pc' = "deliver"
                  /\ term_out' = IF ext.captured_stdout # <<>>
                                 THEN Append(term_out,
                                             [by |-> "shell", text |-> ext.captured_stdout])
                                 ELSE term_out
                  /\ result' = IF ext.child_status = 0 THEN OkNone ELSE Err(<<>>)
            /\ (Delivering /\ ExternalRan) => term_out' = term_out ]_vars

\* A child that wrote o to the pipe and exited with status 1: o is on the
\* terminal and the result about to be delivered is the SilentFailure
C23_Witness ==
    /\ pc = "deliver"
    /\ Piped
    /\ ext.waited
    /\ ext.child_status = 1
    /\ ext.captured_stdout = <<"o">>
    /\ term_out = <<[by |-> "shell", text |-> <<"$ ">>], [by |-> "shell", text |-> <<"o">>]>>
    /\ IsSilentFailure(result)


\* The handle held for a redirect target is the one opened for that target
HandleFor(handle, redirect) ==
    IF IsSome(redirect)
    THEN /\ IsSome(handle)
         /\ Unwrap(handle).path = Resolve(cwd, Unwrap(redirect).filename)
         /\ Unwrap(handle).append = (Unwrap(redirect).mode = Append_)
    ELSE handle = None

\* The child has been spawned and the wait on it has not yet returned
SpawnedNotWaited == pc \in {"exec_child", "exec_drain", "exec_wait"}

\* C24: every redirect file handle the executor opens stays open from the
\* moment it is opened until after the wait on the child has returned, on
\* every path on which the child was spawned; no step between the spawn and
\* the return of the wait closes or replaces a handle, and no handle is
\* held once the executor has returned.
C24_HandleLifetime ==
    /\ [](pc \in {"exec_stderr", "exec_spawn", "exec_child", "exec_drain",
                  "exec_wait", "exec_finish"}
            => HandleFor(ext.stdout_handle, red.stdout_redirect))
    /\ [](pc \in {"exec_spawn", "exec_child", "exec_drain", "exec_wait",
                  "exec_finish"}
            => HandleFor(ext.stderr_handle, red.stderr_redirect))
    /\ [](~Executing => (ext.stdout_handle = None /\ ext.stderr_handle = None))
    /\ [][ ((pc = "exec_spawn" /\ pc' = "exec_child")
                \/ pc \in {"exec_child", "exec_drain"}
                \/ (pc = "exec_wait" /\ pc' = "exec_finish"))
            => (/\ ext'.stdout_handle = ext.stdout_handle
                /\ ext'.stderr_handle = ext.stderr_handle) ]_vars

\* The wait has returned for a child that wrote to both redirect files and
\* exited with status 1, and both handles are still held
C24_Witness ==
    /\ pc = "exec_finish"
    /\ ext.waited
    /\ ext.child_status = 1
    /\ IsSome(ext.stdout_handle)
    /\ IsSome(ext.stderr_handle)
    /\ \E i, j \in 1..Len(file_ops) :
          /\ i < j
          /\ file_ops[i].op = "write" /\ file_ops[i].by = "child"
          /\ file_ops[i].path = Unwrap(ext.stdout_handle).path
          /\ file_ops[j].op = "write" /\ file_ops[j].by = "child"
          /\ file_ops[j].path = Unwrap(ext.stderr_handle).path

\* ------------------------------------------------------------------------
\* Claims about the command loop
\* ------------------------------------------------------------------------
\* The step reads a line
ReadingLine == pc = "prompt" /\ nlines' = nlines + 1

\* The line is empty once trimmed, has no tokens, or does not tokenize
NoCommandIn(line) ==
    \/ Trim(line) = <<>>
    \/ ~main_parse_tokens(Trim(line)).ok
    \/ main_parse_tokens(Trim(line)).args = <<>>

\* The place of each stage of one line in the order of the loop
StageRank ==
    [s \in {"prompt", "dispatch", "exec_stdout", "exec_stderr", "exec_spawn",
            "exec_child", "exec_drain", "exec_wait", "exec_finish", "deliver"} |->
        CASE s = "prompt" -> 0
          [] s = "dispatch" -> 1
          [] s = "exec_stdout" -> 2
          [] s = "exec_stderr" -> 3
          [] s = "exec_spawn" -> 4
          [] s = "exec_child" -> 5
          [] s = "exec_drain" -> 6
          [] s = "exec_wait" -> 7
          [] s = "exec_finish" -> 8
          [] s = "deliver" -> 9]

C26_TokenizersAgree ==
    tpc = "done" => res_parser = res_main

\* ------------------------------------------------------------------------
\* Claims about the stderr target file
\* ------------------------------------------------------------------------
\* The text occurs in the data
OccursIn(text, data) ==
    \E k \in 0..(Len(data) - Len(text)) : SubSeq(data, k + 1, k + Len(text)) = text

\* What the child wrote to the stderr target while the command ran
ChildStderrWrites ==
    {file_ops[i].data : i \in {j \in 1..Len(file_ops) :
                                  /\ file_ops[j].op = "write"
                                  /\ file_ops[j].by = "child"
                                  /\ file_ops[j].path = ErrPath}}

\* C27: for an external command run with a stderr redirect in Overwrite
\* mode that exits with status 0, what the child wrote to the stderr target
\* file is still in that file once the NoOutput result has been delivered.
C27_ChildStderrKept ==
    (/\ Delivered
     /\ ExternalRan
     /\ ext.child_status = 0
     /\ IsNoOutput(result)
     /\ IsSome(red.stderr_redirect)
     /\ Unwrap(red.stderr_redirect).mode = Overwrite)
        => \A text \in ChildStderrWrites : OccursIn(text, fs[ErrPath].data)

\* C28: delivering Failure(message) with a stderr redirect whose target can
\* be opened: in Append mode the previous contents of the target are kept
\* and the message plus line terminator is added after them; only in
\* Overwrite mode is the file truncated before the message is written.
C28_FailureAppendKeeps ==
    [][ (/\ Delivering
         /\ IsFailure(result)
         /\ IsSome(red.stderr_redirect)
         /\ Openable(ErrPath)
         /\ DistinctTargets)
          => fs'[ErrPath].data =
                (IF Unwrap(red.stderr_redirect).mode = Append_
                 THEN fs[ErrPath].data ELSE <<>>) \o result.text \o <<NL>> ]_vars

====
